---- MODULE Spec2Model ----
(***************************************************************************)
(* Model of the healthcare assistant backend (react-nodejs-app/backend):   *)
(* the retry executor (utils/openaiRetry.js), the translation and speech   *)
(* helpers (utils/helpers.js), the chat history store and the route        *)
(* handlers of every feature endpoint.                                     *)
(*                                                                         *)
(* A request occupies a slot r.  pc[r] is the position of its handler,     *)
(* sub[r] the asynchronous operation the handler is suspended on           *)
(* ("ready" once that operation has settled and the handler can resume),   *)
(* res[r] the settled outcome.  Every handler segment between two awaits   *)
(* is one action.                                                          *)
(***************************************************************************)
EXTENDS Integers, Sequences, FiniteSets, TLC

VARIABLES
  apiKey,    \* process.env.OPENAI_API_KEY is set
  genAI,     \* organAnalyzer.js genAI client exists (GOOGLE_API_KEY set)
  masterKey, \* process.env.MASTER_API_KEY is set (config.masterApiKey)
  files,     \* requests (by number) whose upload is present in uploads/
  store,     \* conversationHistories: session key -> list id, 0 when absent
  lists,     \* heap of history arrays: list id -> sequence of entries
  pushed,    \* per list id, how many entries were ever pushed to it
  docStore,  \* documentStore: set of stored file ids
  csvStore,  \* csvStore: set of stored file ids
  budget,    \* requests the clients may still send
  nreq,      \* requests received so far
  pc, ep, inp, loc, sub, res, rt, sent, cnt, hl, fx

vars == <<apiKey, genAI, masterKey, files, store, lists, pushed, docStore, csvStore,
          budget, nreq, pc, ep, inp, loc, sub, res, rt, sent, cnt, hl, fx>>

envVars == <<apiKey, genAI, masterKey>>
chatVars == <<store, lists, pushed>>
storeVars == <<docStore, csvStore>>

(***************************************************************************)
(* Bounds                                                                  *)
(***************************************************************************)
MaxRetriesBound == 4   \* largest maxRetries the retry harness draws
MaxRequests == 2       \* requests per run of the endpoint specification
MaxChatSends == 2      \* requests per run of the concurrent chat specification
MaxSeqSends == 12      \* requests per run of the sequential chat specification

Req == {1, 2}

(***************************************************************************)
(* Texts are sequences of words; "sp" is a whitespace character.           *)
(***************************************************************************)
Empty == <<>>
Null == <<"null">>   \* a JSON null in a text field of a response
Sp == <<"sp">>
Hello == <<"hello", "sp", "world">>
Gato == <<"el", "sp", "gato">>
Hola == <<"hola", "sp", "mundo">>
PadHello == <<"sp", "hello", "sp", "world">>
Diag == <<"analysis", "sp", "complete">>
Recs == <<"consult", "sp", "specialist">>

RECURSIVE TrimLeft(_)
TrimLeft(t) == IF t # <<>> /\ Head(t) = "sp" THEN TrimLeft(Tail(t)) ELSE t

RECURSIVE TrimRight(_)
TrimRight(t) ==
  IF t # <<>> /\ t[Len(t)] = "sp" THEN TrimRight(SubSeq(t, 1, Len(t) - 1)) ELSE t

\* String.prototype.trim
Trim(t) == TrimRight(TrimLeft(t))

\* !text || !text.trim()
IsBlank(t) == t = <<>> \/ Trim(t) = <<>>

CharLen(w) ==
  CASE w = "sp" -> 1
    [] w = "el" -> 2
    [] w = "hola" -> 4
    [] w = "gato" -> 4
    [] w = "mundo" -> 5
    [] w = "hello" -> 5
    [] w = "world" -> 5
    [] OTHER -> 8

RECURSIVE TextLen(_)
TextLen(t) == IF t = <<>> THEN 0 ELSE CharLen(Head(t)) + TextLen(Tail(t))

HasWord(t, ws) == \E i \in 1..Len(t) : t[i] \in ws

EsWords == {"el", "la", "los", "las", "de", "que", "en", "es", "un", "una", "por", "con"}
FrWords == {"le", "la", "les", "de", "que", "en", "est", "un", "une", "pour", "avec"}
DeWords == {"der", "die", "das", "und", "ist", "nicht", "mit", "von", "zu", "den"}
ItWords == {"il", "lo", "la", "i", "gli", "le", "di", "che", "e", "in", "un", "una"}
PtWords == {"o", "a", "os", "as", "de", "que", "em", "um", "uma", "por", "com"}

detectLanguage(t) ==
  IF t = <<>> \/ TextLen(Trim(t)) < 3 THEN "en"
  ELSE IF HasWord(t, EsWords) THEN "es"
  ELSE IF HasWord(t, FrWords) THEN "fr"
  ELSE IF HasWord(t, DeWords) THEN "de"
  ELSE IF HasWord(t, ItWords) THEN "it"
  ELSE IF HasWord(t, PtWords) THEN "pt"
  ELSE "en"

supportedLanguages ==
  {"en", "es", "fr", "de", "it", "pt", "ru", "ja", "ko", "zh-CN", "zh-TW",
   "ar", "hi", "pl", "ta", "ga"}

ttsLanguage(language) == IF language \in supportedLanguages THEN language ELSE "en"

(***************************************************************************)
(* Errors and settled outcomes                                             *)
(***************************************************************************)
NoErr == [status |-> 0, code |-> "", retryAfter |-> 0, n |-> 0, msg |-> ""]

ApiErr(status, code, retryAfter) ==
  [status |-> status, code |-> code, retryAfter |-> retryAfter, n |-> 0, msg |-> "api"]

PlainErr(m) == [status |-> 0, code |-> "", retryAfter |-> 0, n |-> 0, msg |-> m]

\* what one invocation of the upstream completion service can fail with
UpstreamErrors ==
  {ApiErr(429, "rate_limit_exceeded", 30), ApiErr(429, "", 0),
   ApiErr(500, "", 0), ApiErr(502, "", 0), ApiErr(503, "", 0), ApiErr(504, "", 0),
   ApiErr(400, "", 0), ApiErr(0, "", 0), ApiErr(0, "rate_limit_exceeded", 0)}

\* the classes of failure a handler that calls the service directly can meet:
\* a rate limit, a server error, a timeout or network error without a status
ErrorClasses == {ApiErr(429, "rate_limit_exceeded", 30), ApiErr(500, "", 0), ApiErr(0, "", 0)}

\* what the upstream completion service can answer
UpstreamTexts == {PadHello, Gato, Sp}

Ok(v) == [ok |-> TRUE, val |-> v, err |-> NoErr]
Fail(e) == [ok |-> FALSE, val |-> <<>>, err |-> e]
NoRes == Ok(<<>>)

(***************************************************************************)
(* utils/openaiRetry.js                                                    *)
(***************************************************************************)
retryableStatuses == {429, 500, 502, 503, 504}

\* a variant of isRetryableError that leaves 504 out of the retryable statuses
isRetryableErrorWithout504(e) == e.status \in {429, 500, 502, 503}

\* a variant of isRetryableError that takes every error with a status as retryable
isRetryableErrorAnyStatus(e) == e.status # 0

isRetryableError(e) ==
  IF e.status = 0 THEN FALSE ELSE e.status \in retryableStatuses

isRateLimit(e) == e.status = 429 \/ e.code = "rate_limit_exceeded"

RECURSIVE Pow(_, _)
Pow(b, k) == IF k = 0 THEN 1 ELSE b * Pow(b, k - 1)

\* delays are kept as multiples of 1/DelayScale ms, so that 1.5^attempt is exact
DelayScale == Pow(2, MaxRetriesBound + 1)

\* baseDelay * Math.pow(2, attempt), without the random jitter
rateLimitDelay(baseDelay, attempt) == baseDelay * Pow(2, attempt) * DelayScale

\* baseDelay * Math.pow(1.5, attempt)
otherDelay(baseDelay, attempt) ==
  (baseDelay * Pow(3, attempt) * DelayScale) \div Pow(2, attempt)

\* the frame of one retryWithBackoff run: attempt and lastError are its
\* variables; calls counts the invocations of fn; all429 and all5xx tell whether
\* every invocation so far failed with a 429, with a 5xx; log is the record of the
\* invocations (status and code of the error, status 200 and the value for a
\* success, and the jitter-free delay slept after it, 0 for none), kept when keep is set; thrown
\* tells that the run ended by throwing
RtIdle ==
  [max |-> 0, base |-> 0, attempt |-> 0, calls |-> 0, lastError |-> NoErr,
   all429 |-> TRUE, all5xx |-> TRUE, thrown |-> FALSE, keep |-> FALSE, log |-> <<>>]

RtNew(maxRetries, baseDelay) == [RtIdle EXCEPT !.max = maxRetries, !.base = baseDelay]

\* callOpenAIWithRetry(fn, maxRetries) = retryWithBackoff(fn, maxRetries, 2000)
callOpenAIWithRetry(maxRetries) == RtNew(maxRetries, 2000)

\* the frame after one more invocation that ended with status and slept delay
RtAfter(t, status, delay, e) ==
  [t EXCEPT !.calls = @ + 1, !.lastError = e,
            !.all429 = @ /\ status = 429,
            !.all5xx = @ /\ status \in {500, 502, 503, 504},
            !.log = IF t.keep
                      THEN Append(@, [status |-> status, delay |-> delay,
                                      code |-> IF status = 200 THEN "" ELSE e.code,
                                      val |-> <<>>])
                      ELSE @]

\* the frame after an invocation that returned v
RtReturned(t, v) ==
  LET u == RtAfter(t, 200, 0, t.lastError)
  IN [u EXCEPT !.log = IF t.keep THEN [@ EXCEPT ![Len(@)].val = v] ELSE @]

\* a variant of RetryCatch that keeps the first error in lastError and throws it
RetryCatchFirstError(r, e) ==
  LET t == rt[r]
      a == t.attempt
      first == IF t.calls = 0 THEN e ELSE t.lastError
  IN IF isRateLimit(e) /\ a < t.max
       THEN /\ rt' = [rt EXCEPT ![r] = RtAfter(t, e.status, rateLimitDelay(t.base, a), first)]
            /\ sub' = [sub EXCEPT ![r] = "retry_sleep"]
            /\ res' = res
     ELSE IF a = t.max \/ ~isRetryableError(e)
       THEN /\ rt' = [rt EXCEPT ![r] = [RtAfter(t, e.status, 0, first) EXCEPT !.thrown = TRUE]]
            /\ sub' = [sub EXCEPT ![r] = "ready"]
            /\ res' = [res EXCEPT ![r] = Fail(first)]
     ELSE /\ rt' = [rt EXCEPT ![r] = RtAfter(t, e.status, otherDelay(t.base, a), first)]
          /\ sub' = [sub EXCEPT ![r] = "retry_sleep"]
          /\ res' = res

\* the catch block of retryWithBackoff for the error e of the current attempt
RetryCatch(r, e) ==
  LET t == rt[r]
      a == t.attempt
  IN IF isRateLimit(e) /\ a < t.max
       THEN /\ rt' = [rt EXCEPT ![r] = RtAfter(t, e.status, rateLimitDelay(t.base, a), e)]
            /\ sub' = [sub EXCEPT ![r] = "retry_sleep"]
            /\ res' = res
     ELSE IF a = t.max \/ ~isRetryableError(e)
       THEN /\ rt' = [rt EXCEPT ![r] = [RtAfter(t, e.status, 0, e) EXCEPT !.thrown = TRUE]]
            /\ sub' = [sub EXCEPT ![r] = "ready"]
            /\ res' = [res EXCEPT ![r] = Fail(e)]
     ELSE /\ rt' = [rt EXCEPT ![r] = RtAfter(t, e.status, otherDelay(t.base, a), e)]
          /\ sub' = [sub EXCEPT ![r] = "retry_sleep"]
          /\ res' = res

\* a variant of RetryInvoke without the return: the value of await fn() is dropped
\* and the loop goes on to its next attempt while attempts remain
RetryInvokeNoReturn(r, errs) ==
  /\ sub[r] = "retry_call"
  /\ \/ \E v \in UpstreamTexts :
          /\ rt' = [rt EXCEPT ![r] = [RtReturned(rt[r], v) EXCEPT
                                       !.attempt = IF @ < rt[r].max THEN @ + 1 ELSE @]]
          /\ sub' = [sub EXCEPT ![r] = IF rt[r].attempt < rt[r].max THEN "retry_call" ELSE "ready"]
          /\ res' = [res EXCEPT ![r] = IF rt[r].attempt < rt[r].max THEN @ ELSE Ok(v)]
     \/ \E e \in errs :
          RetryCatch(r, [e EXCEPT !.n = rt[r].calls + 1])
  /\ cnt' = [cnt EXCEPT ![r].up = IF rt[r].calls = 0 THEN @ + 1 ELSE @]
  /\ UNCHANGED <<envVars, files, chatVars, storeVars, budget, nreq, pc, ep, inp,
                 loc, sent, hl, fx>>

\* one iteration of the for loop: await fn(), which returns or throws one of errs
RetryInvoke(r, errs) ==
  /\ sub[r] = "retry_call"
  /\ \/ \E v \in UpstreamTexts :
          /\ rt' = [rt EXCEPT ![r] = RtReturned(rt[r], v)]
          /\ sub' = [sub EXCEPT ![r] = "ready"]
          /\ res' = [res EXCEPT ![r] = Ok(v)]
     \/ \E e \in errs :
          RetryCatch(r, [e EXCEPT !.n = rt[r].calls + 1])
  /\ cnt' = [cnt EXCEPT ![r].up = IF rt[r].calls = 0 THEN @ + 1 ELSE @]
  /\ UNCHANGED <<envVars, files, chatVars, storeVars, budget, nreq, pc, ep, inp,
                 loc, sent, hl, fx>>

\* the setTimeout of a backoff sleep fires; the loop goes to its next attempt
RetrySleep(r) ==
  /\ sub[r] = "retry_sleep"
  /\ rt' = [rt EXCEPT ![r].attempt = @ + 1]
  /\ sub' = [sub EXCEPT ![r] = "retry_call"]
  /\ UNCHANGED <<envVars, files, chatVars, storeVars, budget, nreq, pc, ep, inp,
                 loc, res, sent, cnt, hl, fx>>

(***************************************************************************)
(* Per-request state                                                       *)
(***************************************************************************)
NoInp ==
  [text |-> <<>>, file |-> "none", ext |-> TRUE, outLang |-> "en", srcLang |-> "",
   session |-> "default", toEnglish |-> FALSE, organCtx |-> FALSE, fileId |-> 0,
   authKey |-> FALSE, n |-> 0]

NoLoc ==
  [text |-> <<>>, detected |-> "", final |-> <<>>, diag |-> <<>>, recs |-> <<>>,
   summary |-> <<>>, analysed |-> FALSE, audio |-> "null", err |-> NoErr]

\* collaborator operations of the request so far: up counts the direct upstream
\* calls and the retry runs that reached the service (rt counts a run's attempts)
NoCnt == [up |-> 0, tr |-> 0, tts |-> 0, parse |-> 0, unlink |-> 0]

\* what went wrong in the collaborators during the request; for a chat send, turn
\* is the push number of the user entry it appended (0 when it appended nothing)
\* and cleared tells that the array it captured was deleted from the store
NoFx ==
  [trFail |-> FALSE, ttsFail |-> FALSE, unlinkFail |-> FALSE, upCaught |-> FALSE,
   preText |-> <<>>, turn |-> 0, cleared |-> FALSE]

InitSlots ==
  /\ pc = [r \in Req |-> "idle"]
  /\ ep = [r \in Req |-> "none"]
  /\ inp = [r \in Req |-> NoInp]
  /\ loc = [r \in Req |-> NoLoc]
  /\ sub = [r \in Req |-> "none"]
  /\ res = [r \in Req |-> NoRes]
  /\ rt = [r \in Req |-> RtIdle]
  /\ sent = [r \in Req |-> <<>>]
  /\ cnt = [r \in Req |-> NoCnt]
  /\ hl = [r \in Req |-> 0]
  /\ fx = [r \in Req |-> NoFx]

Sessions == {"default", "s2"}
ListIds == 1..4

InitStores ==
  /\ files = {}
  /\ store = [s \in Sessions |-> 0]
  /\ lists = [i \in ListIds |-> <<>>]
  /\ pushed = [i \in ListIds |-> 0]
  /\ docStore = {}
  /\ csvStore = {}
  /\ nreq = 0

(***************************************************************************)
(* Response envelopes.  text is the endpoint's main text field, text2 its  *)
(* second one (translation, diagnosis), retryAfter is 0 when absent.       *)
(***************************************************************************)
Envelope(status, success, msg, retryAfter, text, text2, audio) ==
  [status |-> status, success |-> success, msg |-> msg, retryAfter |-> retryAfter,
   text |-> text, text2 |-> text2, audio |-> audio, history |-> <<>>, json |-> TRUE]

\* res.status(status).send(message): a text body, no JSON envelope
TextBody(status, message) ==
  [Envelope(status, FALSE, message, 0, <<>>, <<>>, "null") EXCEPT !.json = FALSE]

\* res.status(status).json({success: false, error: {message}})
Failure(status, msg) == Envelope(status, FALSE, msg, 0, <<>>, <<>>, "null")

\* res.json({success: true, data: {...}})
Success(text, text2, audio) == Envelope(200, TRUE, "", 0, text, text2, audio)

\* format429Error(error) for an error the caller has found to be a rate limit
format429Error(e) ==
  IF isRateLimit(e)
    THEN Envelope(429, FALSE, "Rate limit exceeded. Please wait a moment and try again.",
                  IF e.retryAfter # 0 THEN e.retryAfter ELSE 60, <<>>, <<>>, "null")
    ELSE Failure(429, "API request failed")

\* the catch blocks of transcription.js and organAnalyzer.js
RateLimitAware(e, msg) == IF isRateLimit(e) THEN format429Error(e) ELSE Failure(500, msg)

(***************************************************************************)
(* utils/helpers.js: translateText and textToSpeechBase64, as the state    *)
(* the awaiting handler is left in by the call                             *)
(***************************************************************************)
\* a variant of translateTextSub without the sourceLang === targetLang return
translateTextSubAlways(text, sourceLang, targetLang) ==
  IF IsBlank(text) THEN "ready" ELSE "tr"

\* translateText(text, sourceLang, targetLang) up to its await
translateTextSub(text, sourceLang, targetLang) ==
  IF IsBlank(text) \/ sourceLang = targetLang THEN "ready" ELSE "tr"

translateTextRes(text, sourceLang, targetLang) ==
  IF IsBlank(text) THEN Ok(<<>>) ELSE Ok(text)

\* what the translation service can answer
TranslationTexts == {Hola}

\* the await translate(...) inside translateText settles
TranslateResolve(r) ==
  /\ sub[r] = "tr"
  /\ \/ /\ \E t \in TranslationTexts : res' = [res EXCEPT ![r] = Ok(t)]
        /\ fx' = fx
     \/ /\ res' = [res EXCEPT ![r] = Ok(res[r].val)]
        /\ fx' = [fx EXCEPT ![r].trFail = TRUE, ![r].preText = res[r].val]
  /\ sub' = [sub EXCEPT ![r] = "ready"]
  /\ cnt' = [cnt EXCEPT ![r].tr = @ + 1]
  /\ UNCHANGED <<envVars, files, chatVars, storeVars, budget, nreq, pc, ep, inp,
                 loc, rt, sent, hl>>

\* textToSpeechBase64(text, language) up to the gtts save
textToSpeechSub(text) == IF IsBlank(text) THEN "ready" ELSE "tts"

textToSpeechRes(text) ==
  IF IsBlank(text) THEN Fail(PlainErr("No text to convert to audio")) ELSE Ok(text)

\* speech.save calls back, then the audio file is read and removed; the promise
\* rejects when the save or the file processing fails
TtsResolve(r) ==
  /\ sub[r] = "tts"
  /\ \/ res' = [res EXCEPT ![r] = Ok(<<"mp3">>)]
     \/ res' = [res EXCEPT ![r] = Fail(PlainErr("Text-to-speech error"))]
  /\ sub' = [sub EXCEPT ![r] = "ready"]
  /\ cnt' = [cnt EXCEPT ![r].tts = @ + 1]
  /\ UNCHANGED <<envVars, files, chatVars, storeVars, budget, nreq, pc, ep, inp,
                 loc, rt, sent, hl, fx>>

\* a direct await openai.chat.completions.create(...) settles
UpstreamResolve(r) ==
  /\ sub[r] = "up"
  /\ \/ \E v \in UpstreamTexts : res' = [res EXCEPT ![r] = Ok(v)]
     \/ \E e \in ErrorClasses : res' = [res EXCEPT ![r] = Fail([e EXCEPT !.n = 1])]
  /\ sub' = [sub EXCEPT ![r] = "ready"]
  /\ cnt' = [cnt EXCEPT ![r].up = @ + 1]
  /\ UNCHANGED <<envVars, files, chatVars, storeVars, budget, nreq, pc, ep, inp,
                 loc, rt, sent, hl, fx>>

\* fs unlink of the request's upload settles: it removes the file, or fails
\* (ENOENT when the file is gone, EPERM/EBUSY otherwise) and leaves storage alone
UnlinkResolve(r) ==
  /\ sub[r] = "unlink"
  /\ \/ /\ inp[r].n \in files
        /\ files' = files \ {inp[r].n}
        /\ res' = [res EXCEPT ![r] = Ok(<<>>)]
        /\ fx' = fx
     \/ /\ files' = files
        /\ res' = [res EXCEPT ![r] = Fail(PlainErr("unlink"))]
        /\ fx' = [fx EXCEPT ![r].unlinkFail = TRUE]
  /\ sub' = [sub EXCEPT ![r] = "ready"]
  /\ cnt' = [cnt EXCEPT ![r].unlink = @ + 1]
  /\ UNCHANGED <<envVars, chatVars, storeVars, budget, nreq, pc, ep, inp, loc, rt,
                 sent, hl>>

\* what reading and parsing an upload (pdf-parse, csv-parser, sharp) can yield:
\* content, nothing (no text, no rows), or an error
ParseResolve(r) ==
  /\ sub[r] = "parse"
  /\ \/ res' = [res EXCEPT ![r] = Ok(Hello)]
     \/ res' = [res EXCEPT ![r] = Ok(Empty)]
     \/ res' = [res EXCEPT ![r] = Fail(PlainErr("parse"))]
  /\ sub' = [sub EXCEPT ![r] = "ready"]
  /\ cnt' = [cnt EXCEPT ![r].parse = @ + 1]
  /\ UNCHANGED <<envVars, files, chatVars, storeVars, budget, nreq, pc, ep, inp,
                 loc, rt, sent, hl, fx>>

\* the handler's response: res.json(...) or res.status(...).json(...)
Respond(r, envelope) == sent' = [sent EXCEPT ![r] = Append(@, envelope)]

(***************************************************************************)
(* Requests arriving                                                       *)
(***************************************************************************)
ChatEndpoints == {"chat", "clear", "history"}
FileEndpoints ==
  {"transcribe", "translateAudio", "organ", "docUpload", "docQuery", "docAnalyze",
   "csvUpload", "csvQuery", "csvAnalyze"}
TextEndpoints == {"translate", "tts", "translateSpeak"}
Endpoints == ChatEndpoints \cup FileEndpoints \cup TextEndpoints

Inputs(e) ==
  CASE e = "chat" ->
         {[NoInp EXCEPT !.text = t, !.outLang = l, !.session = s] :
            t \in {Empty, Sp, Hello}, l \in {"en", "es"}, s \in Sessions}
    [] e \in {"clear", "history"} ->
         {[NoInp EXCEPT !.session = s] : s \in Sessions}
    [] e \in {"translate", "translateSpeak"} ->
         {[NoInp EXCEPT !.text = t, !.srcLang = a, !.outLang = l] :
            t \in {Sp, Hello}, a \in {"", "en"}, l \in {"", "en", "es"}}
    [] e = "tts" ->
         {[NoInp EXCEPT !.text = t, !.outLang = l] : t \in {Sp, Hello}, l \in {"en", "vi"}}
    [] e = "transcribe" ->
         {[NoInp EXCEPT !.file = f, !.ext = x, !.outLang = l, !.toEnglish = b,
                        !.organCtx = o] :
            f \in {"none", "ok", "badtype", "toobig"}, x \in BOOLEAN,
            l \in {"en", "es"}, b \in BOOLEAN, o \in BOOLEAN}
    [] e = "translateAudio" ->
         {[NoInp EXCEPT !.file = f, !.ext = x] :
            f \in {"none", "ok", "badtype", "toobig"}, x \in BOOLEAN}
    [] e = "organ" ->
         {[NoInp EXCEPT !.file = f, !.outLang = l] :
            f \in {"none", "ok", "badtype", "toobig"}, l \in {"en", "es"}}
    [] e \in {"docUpload", "docAnalyze", "csvUpload", "csvAnalyze"} ->
         {[NoInp EXCEPT !.file = f, !.ext = x] :
            f \in {"none", "ok", "badtype", "toobig"}, x \in BOOLEAN}
    [] e \in {"docQuery", "csvQuery"} ->
         {[NoInp EXCEPT !.file = f, !.text = t, !.fileId = i, !.outLang = l] :
            f \in {"none", "ok", "badtype", "toobig"}, t \in {Empty, Hello},
            i \in {0, 1, 9}, l \in {"en", "es"}}

\* history arrays no session and no running handler refers to are garbage
Refs(st, h) == {st[s] : s \in Sessions} \cup {h[q] : q \in Req}
Gc(ls, st, h) == [i \in ListIds |-> IF i \in Refs(st, h) THEN ls[i] ELSE <<>>]
GcPushed(ps, st, h) == [i \in ListIds |-> IF i \in Refs(st, h) THEN ps[i] ELSE 0]
NewList(st, h) == CHOOSE i \in ListIds \ Refs(st, h) : \A j \in ListIds \ Refs(st, h) : i <= j

\* whether the request presents the request-authentication key; there is none to
\* present when MASTER_API_KEY is not configured
AuthKeys == IF masterKey THEN BOOLEAN ELSE {FALSE}

Free(r) == pc[r] \in {"idle", "done"} /\ sub[r] = "none"

\* a request for endpoint e reaches the server and takes the first free slot r
Receive(r, e) ==
  /\ Free(r)
  /\ \A q \in Req : q < r => ~Free(q)
  /\ budget > 0
  /\ budget' = budget - 1
  /\ nreq' = nreq + 1
  /\ \E i \in Inputs(e) : \E k \in AuthKeys :
       inp' = [inp EXCEPT ![r] = [i EXCEPT !.n = nreq + 1, !.authKey = k]]
  /\ ep' = [ep EXCEPT ![r] = e]
  /\ pc' = [pc EXCEPT ![r] = IF e \in FileEndpoints THEN "multer" ELSE "start"]
  /\ loc' = [loc EXCEPT ![r] = NoLoc]
  /\ res' = [res EXCEPT ![r] = NoRes]
  /\ rt' = [rt EXCEPT ![r] = RtIdle]
  /\ sent' = [sent EXCEPT ![r] = <<>>]
  /\ cnt' = [cnt EXCEPT ![r] = NoCnt]
  /\ fx' = [fx EXCEPT ![r] = NoFx]
  /\ hl' = [hl EXCEPT ![r] = 0]
  /\ lists' = Gc(lists, store, hl')
  /\ pushed' = GcPushed(pushed, store, hl')
  /\ UNCHANGED <<envVars, files, store, storeVars, sub>>

\* a request that a middleware of server.js answers before any router sees it
Reject(r, e, response) ==
  /\ Free(r)
  /\ \A q \in Req : q < r => ~Free(q)
  /\ budget > 0
  /\ budget' = budget - 1
  /\ nreq' = nreq + 1
  /\ inp' = [inp EXCEPT ![r] = [NoInp EXCEPT !.n = nreq + 1]]
  /\ ep' = [ep EXCEPT ![r] = e]
  /\ pc' = [pc EXCEPT ![r] = "done"]
  /\ loc' = [loc EXCEPT ![r] = NoLoc]
  /\ res' = [res EXCEPT ![r] = NoRes]
  /\ rt' = [rt EXCEPT ![r] = RtIdle]
  /\ sent' = [sent EXCEPT ![r] = <<response>>]
  /\ cnt' = [cnt EXCEPT ![r] = NoCnt]
  /\ fx' = [fx EXCEPT ![r] = NoFx]
  /\ hl' = [hl EXCEPT ![r] = 0]
  /\ lists' = Gc(lists, store, hl')
  /\ pushed' = GcPushed(pushed, store, hl')
  /\ UNCHANGED <<envVars, files, store, storeVars, sub>>

\* the rate limiter of /api/ answers a client that has used up the 100 requests of
\* its window (the window's earlier requests are not part of the run)
RateLimited(r) ==
  Reject(r, "limited", TextBody(429, "Too many requests from this IP, please try again later."))

\* no route matches: the 404 handler
NotFound(r) == Reject(r, "unknown", Failure(404, "Route not found"))

(***************************************************************************)
(* routes/clinicalChat.js                                                  *)
(***************************************************************************)
HistoryCap == 20

\* history.push(user); history.push(assistant), entries numbered by push order
pushExchange(h, k) ==
  Append(Append(h, [role |-> "user", k |-> k + 1]), [role |-> "assistant", k |-> k + 2])

\* variants of capHistory: one never trims, one keeps the oldest entries
capHistoryNever(h) == h
capHistoryOldest(h) == IF Len(h) > HistoryCap THEN SubSeq(h, 1, HistoryCap) ELSE h

\* a variant of capHistory that removes one entry: history.splice(0, 1)
capHistoryDropOne(h) == IF Len(h) > HistoryCap THEN Tail(h) ELSE h

\* if (history.length > 20) history.splice(0, history.length - 20)
capHistory(h) ==
  IF Len(h) > HistoryCap THEN SubSeq(h, Len(h) - HistoryCap + 1, Len(h)) ELSE h

\* a variant of ChatStart that also sets a new array when the stored one is empty
ChatStartFreshWhenEmpty(r) ==
  /\ pc[r] = "start" /\ ep[r] = "chat"
  /\ LET s == inp[r].session IN
     IF IsBlank(inp[r].text)
       THEN /\ Respond(r, Failure(400, "Query or message is required"))
            /\ pc' = [pc EXCEPT ![r] = "done"]
            /\ UNCHANGED <<store, hl, sub>>
     ELSE IF ~apiKey
       THEN /\ Respond(r, Failure(500, "OpenAI API key not configured"))
            /\ pc' = [pc EXCEPT ![r] = "done"]
            /\ UNCHANGED <<store, hl, sub>>
     ELSE /\ store' = [store EXCEPT ![s] = IF store[s] = 0 \/ lists[store[s]] = <<>>
                                               THEN NewList(store, hl) ELSE @]
          /\ hl' = [hl EXCEPT ![r] = store'[s]]
          /\ sub' = [sub EXCEPT ![r] = "up"]
          /\ pc' = [pc EXCEPT ![r] = "chat_up"]
          /\ sent' = sent
  /\ UNCHANGED <<envVars, files, lists, pushed, storeVars, budget, nreq, ep, inp,
                 loc, res, rt, cnt, fx>>

\* handleSendMessage up to await openai.chat.completions.create
ChatStart(r) ==
  /\ pc[r] = "start" /\ ep[r] = "chat"
  /\ LET s == inp[r].session IN
     IF IsBlank(inp[r].text)
       THEN /\ Respond(r, Failure(400, "Query or message is required"))
            /\ pc' = [pc EXCEPT ![r] = "done"]
            /\ UNCHANGED <<store, hl, sub>>
     ELSE IF ~apiKey
       THEN /\ Respond(r, Failure(500, "OpenAI API key not configured"))
            /\ pc' = [pc EXCEPT ![r] = "done"]
            /\ UNCHANGED <<store, hl, sub>>
     ELSE /\ store' = [store EXCEPT ![s] = IF store[s] = 0 THEN NewList(store, hl) ELSE @]
          /\ hl' = [hl EXCEPT ![r] = store'[s]]
          /\ sub' = [sub EXCEPT ![r] = "up"]
          /\ pc' = [pc EXCEPT ![r] = "chat_up"]
          /\ sent' = sent
  /\ UNCHANGED <<envVars, files, lists, pushed, storeVars, budget, nreq, ep, inp,
                 loc, res, rt, cnt, fx>>

\* a variant of ChatAfterUpstream for a handler that pushes the user entry before
\* the completion call: the entry stays when the call fails
ChatAfterUpstreamUserFirst(r) ==
  /\ pc[r] = "chat_up" /\ sub[r] = "ready"
  /\ IF ~res[r].ok
       THEN /\ Respond(r, Failure(500, "Failed to process clinical chat request"))
            /\ loc' = [loc EXCEPT ![r].err = res[r].err]
            /\ pc' = [pc EXCEPT ![r] = "done"]
            /\ sub' = [sub EXCEPT ![r] = "none"]
            /\ res' = [res EXCEPT ![r] = NoRes]
            /\ lists' = [lists EXCEPT ![hl[r]] =
                            capHistory(Append(@, [role |-> "user", k |-> pushed[hl[r]] + 1]))]
            /\ pushed' = [pushed EXCEPT ![hl[r]] = @ + 1]
            /\ fx' = [fx EXCEPT ![r].turn = pushed[hl[r]] + 1]
     ELSE LET responseText == Trim(res[r].val)
              h == hl[r]
              detectedLang == detectLanguage(responseText)
              out == inp[r].outLang
          IN /\ lists' = [lists EXCEPT ![h] = capHistory(pushExchange(@, pushed[h]))]
             /\ pushed' = [pushed EXCEPT ![h] = @ + 2]
             /\ fx' = [fx EXCEPT ![r].turn = pushed[h] + 1]
             /\ sent' = sent
             /\ IF out # detectedLang
                  THEN /\ loc' = [loc EXCEPT ![r].text = responseText,
                                             ![r].detected = detectedLang]
                       /\ sub' = [sub EXCEPT ![r] =
                                    translateTextSub(responseText, detectedLang, out)]
                       /\ res' = [res EXCEPT ![r] =
                                    translateTextRes(responseText, detectedLang, out)]
                       /\ pc' = [pc EXCEPT ![r] = "chat_tr"]
                  ELSE /\ loc' = [loc EXCEPT ![r].text = responseText,
                                             ![r].detected = detectedLang,
                                             ![r].final = responseText]
                       /\ sub' = [sub EXCEPT ![r] = textToSpeechSub(responseText)]
                       /\ res' = [res EXCEPT ![r] = textToSpeechRes(responseText)]
                       /\ pc' = [pc EXCEPT ![r] = "chat_tts"]
  /\ UNCHANGED <<envVars, files, store, storeVars, budget, nreq, ep, inp, rt, cnt,
                 hl>>

\* a variant of ChatAfterUpstream that writes the array back after the pushes:
\* conversationHistories.set(sessionId, history)
ChatAfterUpstreamWriteBack(r) ==
  /\ pc[r] = "chat_up" /\ sub[r] = "ready"
  /\ IF ~res[r].ok
       THEN /\ Respond(r, Failure(500, "Failed to process clinical chat request"))
            /\ loc' = [loc EXCEPT ![r].err = res[r].err]
            /\ pc' = [pc EXCEPT ![r] = "done"]
            /\ sub' = [sub EXCEPT ![r] = "none"]
            /\ res' = [res EXCEPT ![r] = NoRes]
            /\ UNCHANGED <<lists, pushed, fx, store>>
     ELSE LET responseText == Trim(res[r].val)
              h == hl[r]
              detectedLang == detectLanguage(responseText)
              out == inp[r].outLang
          IN /\ lists' = [lists EXCEPT ![h] = capHistory(pushExchange(@, pushed[h]))]
             /\ pushed' = [pushed EXCEPT ![h] = @ + 2]
             /\ store' = [store EXCEPT ![inp[r].session] = h]
             /\ fx' = [fx EXCEPT ![r].turn = pushed[h] + 1]
             /\ sent' = sent
             /\ IF out # detectedLang
                  THEN /\ loc' = [loc EXCEPT ![r].text = responseText,
                                             ![r].detected = detectedLang]
                       /\ sub' = [sub EXCEPT ![r] =
                                    translateTextSub(responseText, detectedLang, out)]
                       /\ res' = [res EXCEPT ![r] =
                                    translateTextRes(responseText, detectedLang, out)]
                       /\ pc' = [pc EXCEPT ![r] = "chat_tr"]
                  ELSE /\ loc' = [loc EXCEPT ![r].text = responseText,
                                             ![r].detected = detectedLang,
                                             ![r].final = responseText]
                       /\ sub' = [sub EXCEPT ![r] = textToSpeechSub(responseText)]
                       /\ res' = [res EXCEPT ![r] = textToSpeechRes(responseText)]
                       /\ pc' = [pc EXCEPT ![r] = "chat_tts"]
  /\ UNCHANGED <<envVars, files, storeVars, budget, nreq, ep, inp, rt, cnt,
                 hl>>

\* the completion settled: history update, language detection, translateText call
ChatAfterUpstream(r) ==
  /\ pc[r] = "chat_up" /\ sub[r] = "ready"
  /\ IF ~res[r].ok
       THEN /\ Respond(r, Failure(500, "Failed to process clinical chat request"))
            /\ loc' = [loc EXCEPT ![r].err = res[r].err]
            /\ pc' = [pc EXCEPT ![r] = "done"]
            /\ sub' = [sub EXCEPT ![r] = "none"]
            /\ res' = [res EXCEPT ![r] = NoRes]
            /\ UNCHANGED <<lists, pushed, fx>>
     ELSE LET responseText == Trim(res[r].val)
              h == hl[r]
              detectedLang == detectLanguage(responseText)
              out == inp[r].outLang
          IN /\ lists' = [lists EXCEPT ![h] = capHistory(pushExchange(@, pushed[h]))]
             /\ pushed' = [pushed EXCEPT ![h] = @ + 2]
             /\ fx' = [fx EXCEPT ![r].turn = pushed[h] + 1]
             /\ sent' = sent
             /\ IF out # detectedLang
                  THEN /\ loc' = [loc EXCEPT ![r].text = responseText,
                                             ![r].detected = detectedLang]
                       /\ sub' = [sub EXCEPT ![r] =
                                    translateTextSub(responseText, detectedLang, out)]
                       /\ res' = [res EXCEPT ![r] =
                                    translateTextRes(responseText, detectedLang, out)]
                       /\ pc' = [pc EXCEPT ![r] = "chat_tr"]
                  ELSE /\ loc' = [loc EXCEPT ![r].text = responseText,
                                             ![r].detected = detectedLang,
                                             ![r].final = responseText]
                       /\ sub' = [sub EXCEPT ![r] = textToSpeechSub(responseText)]
                       /\ res' = [res EXCEPT ![r] = textToSpeechRes(responseText)]
                       /\ pc' = [pc EXCEPT ![r] = "chat_tts"]
  /\ UNCHANGED <<envVars, files, store, storeVars, budget, nreq, ep, inp, rt, cnt,
                 hl>>

\* translateText returned: textToSpeechBase64 call
ChatAfterTranslate(r) ==
  /\ pc[r] = "chat_tr" /\ sub[r] = "ready"
  /\ loc' = [loc EXCEPT ![r].final = res[r].val]
  /\ sub' = [sub EXCEPT ![r] = textToSpeechSub(res[r].val)]
  /\ res' = [res EXCEPT ![r] = textToSpeechRes(res[r].val)]
  /\ pc' = [pc EXCEPT ![r] = "chat_tts"]
  /\ UNCHANGED <<envVars, files, chatVars, storeVars, budget, nreq, ep, inp, rt,
                 sent, cnt, hl, fx>>

\* textToSpeechBase64 settled (a rejection is caught): res.json
ChatAfterTts(r) ==
  /\ pc[r] = "chat_tts" /\ sub[r] = "ready"
  /\ loc' = [loc EXCEPT ![r].audio = IF res[r].ok THEN "mp3" ELSE "null"]
  /\ fx' = [fx EXCEPT ![r].ttsFail = ~res[r].ok]
  /\ Respond(r, Success(loc[r].final, <<>>, loc'[r].audio))
  /\ pc' = [pc EXCEPT ![r] = "done"]
  /\ sub' = [sub EXCEPT ![r] = "none"]
  /\ res' = [res EXCEPT ![r] = NoRes]
  /\ UNCHANGED <<envVars, files, chatVars, storeVars, budget, nreq, ep, inp,
                 rt, cnt, hl>>

\* a variant of ChatClear that empties the whole store: conversationHistories.clear()
ChatClearAll(r) ==
  /\ pc[r] = "start" /\ ep[r] = "clear"
  /\ store' = [s \in Sessions |-> 0]
  /\ fx' = [q \in Req |-> IF hl[q] # 0 /\ hl[q] = store[inp[r].session]
                            THEN [fx[q] EXCEPT !.cleared = TRUE] ELSE fx[q]]
  /\ lists' = Gc(lists, store', hl)
  /\ pushed' = GcPushed(pushed, store', hl)
  /\ Respond(r, Success(<<>>, <<>>, "null"))
  /\ pc' = [pc EXCEPT ![r] = "done"]
  /\ UNCHANGED <<envVars, files, storeVars, budget, nreq, ep, inp, loc, sub, res,
                 rt, cnt, hl>>

\* router.post('/clear')
ChatClear(r) ==
  /\ pc[r] = "start" /\ ep[r] = "clear"
  /\ store' = [store EXCEPT ![inp[r].session] = 0]
  /\ fx' = [q \in Req |-> IF hl[q] # 0 /\ hl[q] = store[inp[r].session]
                            THEN [fx[q] EXCEPT !.cleared = TRUE] ELSE fx[q]]
  /\ lists' = Gc(lists, store', hl)
  /\ pushed' = GcPushed(pushed, store', hl)
  /\ Respond(r, Success(<<>>, <<>>, "null"))
  /\ pc' = [pc EXCEPT ![r] = "done"]
  /\ UNCHANGED <<envVars, files, storeVars, budget, nreq, ep, inp, loc, sub, res,
                 rt, cnt, hl>>

\* conversationHistories.get(sessionId) || []
History(s) == IF store[s] = 0 THEN <<>> ELSE lists[store[s]]

\* router.get('/history/:sessionId?')
ChatHistory(r) ==
  /\ pc[r] = "start" /\ ep[r] = "history"
  /\ Respond(r, [Success(<<>>, <<>>, "null") EXCEPT !.history = History(inp[r].session)])
  /\ pc' = [pc EXCEPT ![r] = "done"]
  /\ UNCHANGED <<envVars, files, chatVars, storeVars, budget, nreq, ep, inp, loc,
                 sub, res, rt, cnt, hl, fx>>

ChatStep(r) ==
  \/ ChatStart(r) \/ ChatAfterUpstream(r) \/ ChatAfterTranslate(r) \/ ChatAfterTts(r)
  \/ ChatClear(r) \/ ChatHistory(r)
  \/ UpstreamResolve(r) \/ TranslateResolve(r) \/ TtsResolve(r)

(***************************************************************************)
(* multer upload middleware (upload.single) of the file-bearing routes     *)
(***************************************************************************)
\* the fileFilter of the route's multer instance
fileFilter(e, i) ==
  IF e \in {"transcribe", "translateAudio", "csvUpload", "csvQuery", "csvAnalyze"}
    THEN i.file = "ok" \/ i.ext      \* an accepted mimetype, or an accepted extension
    ELSE i.file = "ok"               \* an accepted mimetype

\* upload.single(...): no file part, a stored upload, or an error (fileFilter
\* rejection, LIMIT_FILE_SIZE) that leaves nothing stored.  transcription.js wraps
\* the middleware on '/' and '/transcribe'; elsewhere the error reaches the
\* error handling middleware of server.js (err.statusCode || 500)
Multer(r) ==
  /\ pc[r] = "multer"
  /\ LET i == inp[r] IN
     IF i.file = "none"
       THEN /\ pc' = [pc EXCEPT ![r] = "start"]
            /\ UNCHANGED <<files, sent>>
     ELSE IF i.file # "toobig" /\ fileFilter(ep[r], i)
       THEN /\ pc' = [pc EXCEPT ![r] = "start"]
            /\ files' = files \cup {i.n}
            /\ sent' = sent
     ELSE /\ pc' = [pc EXCEPT ![r] = "done"]
          /\ files' = files
          /\ IF ep[r] = "transcribe"
               THEN Respond(r, Failure(400, "File upload error"))
               ELSE Respond(r, Failure(500, "upload rejected"))
  /\ UNCHANGED <<envVars, chatVars, storeVars, budget, nreq, ep, inp, loc, sub,
                 res, rt, cnt, hl, fx>>

\* req.file is set
HasFile(r) == inp[r].file # "none"

(***************************************************************************)
(* routes/transcription.js                                                 *)
(***************************************************************************)
\* the outer catch block: unlink the upload inside try {} catch (e) {}
\* (pc names the handler position that answers once the unlink has settled)
CatchWithUnlink(r, e, catchPc) ==
  /\ loc' = [loc EXCEPT ![r].err = e]
  /\ pc' = [pc EXCEPT ![r] = catchPc]
  /\ sub' = [sub EXCEPT ![r] = "unlink"]
  /\ res' = [res EXCEPT ![r] = NoRes]

\* handleTranscribe up to the first callOpenAIWithRetry
TranscribeStart(r) ==
  /\ pc[r] = "start" /\ ep[r] = "transcribe"
  /\ IF ~HasFile(r)
       THEN /\ Respond(r, Failure(400, "No audio file uploaded"))
            /\ pc' = [pc EXCEPT ![r] = "done"]
            /\ UNCHANGED <<sub, rt>>
     ELSE IF ~inp[r].ext
       THEN /\ Respond(r, Failure(400, "Unrecognized file format"))
            /\ pc' = [pc EXCEPT ![r] = "done"]
            /\ UNCHANGED <<sub, rt>>
     ELSE IF ~apiKey
       THEN /\ Respond(r, Failure(500, "OpenAI API key not configured"))
            /\ pc' = [pc EXCEPT ![r] = "done"]
            /\ UNCHANGED <<sub, rt>>
     ELSE /\ rt' = [rt EXCEPT ![r] = callOpenAIWithRetry(3)]
          /\ sub' = [sub EXCEPT ![r] = "retry_call"]
          /\ pc' = [pc EXCEPT ![r] = "ts_whisper"]
          /\ sent' = sent
  /\ UNCHANGED <<envVars, files, chatVars, storeVars, budget, nreq, ep, inp, loc,
                 res, cnt, hl, fx>>

\* after translatedText is known: the organ analysis call, or the speech call
TranscribeContinue(r, transcribed, detected, translated) ==
  /\ loc' = [loc EXCEPT ![r].text = transcribed, ![r].detected = detected,
                        ![r].final = translated]
  /\ IF inp[r].organCtx
       THEN /\ rt' = [rt EXCEPT ![r] = callOpenAIWithRetry(3)]
            /\ sub' = [sub EXCEPT ![r] = "retry_call"]
            /\ res' = [res EXCEPT ![r] = NoRes]
            /\ pc' = [pc EXCEPT ![r] = "ts_analysis"]
       ELSE /\ rt' = [rt EXCEPT ![r] = RtIdle]
            /\ sub' = [sub EXCEPT ![r] = textToSpeechSub(translated)]
            /\ res' = [res EXCEPT ![r] = textToSpeechRes(translated)]
            /\ pc' = [pc EXCEPT ![r] = "ts_tts"]

\* a variant of translationTarget that ignores translateToEnglish
translationTargetOutput(i) == i.outLang

\* the language handleTranscribe translates to: 'en' when translateToEnglish is
\* set, outputLanguage otherwise
translationTarget(i) == IF i.toEnglish THEN "en" ELSE i.outLang

\* the whisper call settled: language detection and the translateText call
TranscribeAfterWhisper(r) ==
  /\ pc[r] = "ts_whisper" /\ sub[r] = "ready"
  /\ IF ~res[r].ok
       THEN CatchWithUnlink(r, res[r].err, "ts_catch") /\ rt' = rt
     ELSE LET transcribedText == res[r].val
              detectedLang == detectLanguage(transcribedText)
              out == inp[r].outLang
              target == translationTarget(inp[r])
          IN IF target # detectedLang
               THEN /\ loc' = [loc EXCEPT ![r].text = transcribedText,
                                          ![r].detected = detectedLang]
                    /\ sub' = [sub EXCEPT ![r] =
                                 translateTextSub(transcribedText, detectedLang, target)]
                    /\ res' = [res EXCEPT ![r] =
                                 translateTextRes(transcribedText, detectedLang, target)]
                    /\ pc' = [pc EXCEPT ![r] = "ts_translated"]
                    /\ rt' = [rt EXCEPT ![r] = RtIdle]
               ELSE TranscribeContinue(r, transcribedText, detectedLang, transcribedText)
  /\ UNCHANGED <<envVars, files, chatVars, storeVars, budget, nreq, ep, inp, sent,
                 cnt, hl, fx>>

TranscribeAfterTranslate(r) ==
  /\ pc[r] = "ts_translated" /\ sub[r] = "ready"
  /\ TranscribeContinue(r, loc[r].text, loc[r].detected, res[r].val)
  /\ UNCHANGED <<envVars, files, chatVars, storeVars, budget, nreq, ep, inp, sent,
                 cnt, hl, fx>>

\* `${translatedText}. Analysis: ${organSummary}` when organSummary is truthy
audioText(translated, summary) ==
  IF summary # <<>> THEN translated \o <<"sp">> \o summary ELSE translated

\* the speech call of handleTranscribe
TranscribeSpeak(r, summary) ==
  /\ sub' = [sub EXCEPT ![r] = textToSpeechSub(audioText(loc[r].final, summary))]
  /\ res' = [res EXCEPT ![r] = textToSpeechRes(audioText(loc[r].final, summary))]
  /\ pc' = [pc EXCEPT ![r] = "ts_tts"]

\* the analysis completion settled; its failure, and a JSON.parse failure of an
\* answer without content, are caught and logged
TranscribeAfterAnalysis(r) ==
  /\ pc[r] = "ts_analysis" /\ sub[r] = "ready"
  /\ rt' = [rt EXCEPT ![r] = RtIdle]
  /\ fx' = [fx EXCEPT ![r].upCaught = ~res[r].ok /\ ~isRateLimit(res[r].err)]
  /\ IF ~res[r].ok \/ IsBlank(res[r].val)
       THEN TranscribeSpeak(r, <<>>) /\ loc' = loc
     ELSE IF inp[r].outLang # "en"
       THEN /\ loc' = [loc EXCEPT ![r].analysed = TRUE, ![r].summary = Diag,
                                  ![r].recs = Recs]
            /\ sub' = [sub EXCEPT ![r] = translateTextSub(Diag, "en", inp[r].outLang)]
            /\ res' = [res EXCEPT ![r] = translateTextRes(Diag, "en", inp[r].outLang)]
            /\ pc' = [pc EXCEPT ![r] = "ts_summary"]
     ELSE /\ loc' = [loc EXCEPT ![r].analysed = TRUE, ![r].summary = Diag,
                                ![r].recs = Recs]
          /\ TranscribeSpeak(r, Diag)
  /\ UNCHANGED <<envVars, files, chatVars, storeVars, budget, nreq, ep, inp, sent,
                 cnt, hl>>

\* the summary is translated: Promise.all over the recommendations
TranscribeAfterSummary(r) ==
  /\ pc[r] = "ts_summary" /\ sub[r] = "ready"
  /\ loc' = [loc EXCEPT ![r].summary = res[r].val]
  /\ sub' = [sub EXCEPT ![r] = translateTextSub(loc[r].recs, "en", inp[r].outLang)]
  /\ res' = [res EXCEPT ![r] = translateTextRes(loc[r].recs, "en", inp[r].outLang)]
  /\ pc' = [pc EXCEPT ![r] = "ts_recs"]
  /\ UNCHANGED <<envVars, files, chatVars, storeVars, budget, nreq, ep, inp, rt,
                 sent, cnt, hl, fx>>

TranscribeAfterRecs(r) ==
  /\ pc[r] = "ts_recs" /\ sub[r] = "ready"
  /\ loc' = [loc EXCEPT ![r].recs = res[r].val]
  /\ TranscribeSpeak(r, loc[r].summary)
  /\ UNCHANGED <<envVars, files, chatVars, storeVars, budget, nreq, ep, inp, rt,
                 sent, cnt, hl, fx>>

\* the speech call settled (a rejection is caught): await fsPromises.unlink
TranscribeAfterTts(r) ==
  /\ pc[r] = "ts_tts" /\ sub[r] = "ready"
  /\ loc' = [loc EXCEPT ![r].audio = IF res[r].ok THEN "mp3" ELSE "null"]
  /\ fx' = [fx EXCEPT ![r].ttsFail = ~res[r].ok]
  /\ sub' = [sub EXCEPT ![r] = "unlink"]
  /\ res' = [res EXCEPT ![r] = NoRes]
  /\ pc' = [pc EXCEPT ![r] = "ts_unlink"]
  /\ UNCHANGED <<envVars, files, chatVars, storeVars, budget, nreq, ep, inp, rt,
                 sent, cnt, hl>>

\* the unlink settled: res.json, or the outer catch when it threw
TranscribeAfterUnlink(r) ==
  /\ pc[r] = "ts_unlink" /\ sub[r] = "ready"
  /\ IF res[r].ok
       THEN /\ Respond(r, Success(loc[r].text,
                                  IF loc[r].final # loc[r].text THEN loc[r].final ELSE Null,
                                  loc[r].audio))
            /\ pc' = [pc EXCEPT ![r] = "done"]
            /\ sub' = [sub EXCEPT ![r] = "none"]
            /\ UNCHANGED <<loc, res>>
       ELSE CatchWithUnlink(r, res[r].err, "ts_catch") /\ sent' = sent
  /\ UNCHANGED <<envVars, files, chatVars, storeVars, budget, nreq, ep, inp, rt,
                 cnt, hl, fx>>

\* the rest of the catch block of handleTranscribe
TranscribeCatch(r) ==
  /\ pc[r] = "ts_catch" /\ sub[r] = "ready"
  /\ Respond(r, RateLimitAware(loc[r].err, "Failed to transcribe audio"))
  /\ pc' = [pc EXCEPT ![r] = "done"]
  /\ sub' = [sub EXCEPT ![r] = "none"]
  /\ res' = [res EXCEPT ![r] = NoRes]
  /\ UNCHANGED <<envVars, files, chatVars, storeVars, budget, nreq, ep, inp, loc,
                 rt, cnt, hl, fx>>

TranscribeStep(r) ==
  \/ TranscribeStart(r) \/ TranscribeAfterWhisper(r) \/ TranscribeAfterTranslate(r)
  \/ TranscribeAfterAnalysis(r) \/ TranscribeAfterSummary(r) \/ TranscribeAfterRecs(r)
  \/ TranscribeAfterTts(r) \/ TranscribeAfterUnlink(r) \/ TranscribeCatch(r)

\* fs.readFile of the upload, or sharp's processing of it, settles
ReadResolve(r) ==
  /\ sub[r] = "read"
  /\ \/ res' = [res EXCEPT ![r] = Ok(Hello)]
     \/ res' = [res EXCEPT ![r] = Fail(PlainErr("read"))]
  /\ sub' = [sub EXCEPT ![r] = "ready"]
  /\ cnt' = [cnt EXCEPT ![r].parse = @ + 1]
  /\ UNCHANGED <<envVars, files, chatVars, storeVars, budget, nreq, pc, ep, inp,
                 loc, rt, sent, hl, fx>>

\* router.post('/translate-audio') up to fsPromises.readFile
TranslateAudioStart(r) ==
  /\ pc[r] = "start" /\ ep[r] = "translateAudio"
  /\ IF ~HasFile(r)
       THEN /\ Respond(r, Failure(400, "No audio file uploaded"))
            /\ pc' = [pc EXCEPT ![r] = "done"]
            /\ sub' = sub
     ELSE IF ~apiKey
       THEN /\ Respond(r, Failure(500, "OpenAI API key not configured"))
            /\ pc' = [pc EXCEPT ![r] = "done"]
            /\ sub' = sub
     ELSE /\ sub' = [sub EXCEPT ![r] = "read"]
          /\ pc' = [pc EXCEPT ![r] = "ta_read"]
          /\ sent' = sent
  /\ UNCHANGED <<envVars, files, chatVars, storeVars, budget, nreq, ep, inp, loc,
                 res, rt, cnt, hl, fx>>

\* the file is read: callOpenAIWithRetry around openai.audio.translations.create
TranslateAudioAfterRead(r) ==
  /\ pc[r] = "ta_read" /\ sub[r] = "ready"
  /\ IF ~res[r].ok
       THEN CatchWithUnlink(r, res[r].err, "ta_catch") /\ rt' = rt
       ELSE /\ rt' = [rt EXCEPT ![r] = callOpenAIWithRetry(3)]
            /\ sub' = [sub EXCEPT ![r] = "retry_call"]
            /\ res' = [res EXCEPT ![r] = NoRes]
            /\ pc' = [pc EXCEPT ![r] = "ta_whisper"]
            /\ loc' = loc
  /\ UNCHANGED <<envVars, files, chatVars, storeVars, budget, nreq, ep, inp, sent,
                 cnt, hl, fx>>

TranslateAudioAfterWhisper(r) ==
  /\ pc[r] = "ta_whisper" /\ sub[r] = "ready"
  /\ IF ~res[r].ok
       THEN CatchWithUnlink(r, res[r].err, "ta_catch") /\ rt' = rt
       ELSE /\ loc' = [loc EXCEPT ![r].text = res[r].val, ![r].final = res[r].val]
            /\ rt' = [rt EXCEPT ![r] = RtIdle]
            /\ sub' = [sub EXCEPT ![r] = textToSpeechSub(res[r].val)]
            /\ res' = [res EXCEPT ![r] = textToSpeechRes(res[r].val)]
            /\ pc' = [pc EXCEPT ![r] = "ta_tts"]
  /\ UNCHANGED <<envVars, files, chatVars, storeVars, budget, nreq, ep, inp, sent,
                 cnt, hl, fx>>

TranslateAudioAfterTts(r) ==
  /\ pc[r] = "ta_tts" /\ sub[r] = "ready"
  /\ loc' = [loc EXCEPT ![r].audio = IF res[r].ok THEN "mp3" ELSE "null"]
  /\ fx' = [fx EXCEPT ![r].ttsFail = ~res[r].ok]
  /\ sub' = [sub EXCEPT ![r] = "unlink"]
  /\ res' = [res EXCEPT ![r] = NoRes]
  /\ pc' = [pc EXCEPT ![r] = "ta_unlink"]
  /\ UNCHANGED <<envVars, files, chatVars, storeVars, budget, nreq, ep, inp, rt,
                 sent, cnt, hl>>

TranslateAudioAfterUnlink(r) ==
  /\ pc[r] = "ta_unlink" /\ sub[r] = "ready"
  /\ IF res[r].ok
       THEN /\ Respond(r, Success(loc[r].final, Null, loc[r].audio))
            /\ pc' = [pc EXCEPT ![r] = "done"]
            /\ sub' = [sub EXCEPT ![r] = "none"]
            /\ UNCHANGED <<loc, res>>
       ELSE CatchWithUnlink(r, res[r].err, "ta_catch") /\ sent' = sent
  /\ UNCHANGED <<envVars, files, chatVars, storeVars, budget, nreq, ep, inp, rt,
                 cnt, hl, fx>>

TranslateAudioCatch(r) ==
  /\ pc[r] = "ta_catch" /\ sub[r] = "ready"
  /\ Respond(r, RateLimitAware(loc[r].err, "Failed to translate audio"))
  /\ pc' = [pc EXCEPT ![r] = "done"]
  /\ sub' = [sub EXCEPT ![r] = "none"]
  /\ res' = [res EXCEPT ![r] = NoRes]
  /\ UNCHANGED <<envVars, files, chatVars, storeVars, budget, nreq, ep, inp, loc,
                 rt, cnt, hl, fx>>

TranslateAudioStep(r) ==
  \/ TranslateAudioStart(r) \/ TranslateAudioAfterRead(r)
  \/ TranslateAudioAfterWhisper(r) \/ TranslateAudioAfterTts(r)
  \/ TranslateAudioAfterUnlink(r) \/ TranslateAudioCatch(r)

(***************************************************************************)
(* routes/organAnalyzer.js                                                 *)
(***************************************************************************)
\* what the vision model process can print as its analysis
AnalysisTexts == {Hello, Gato}

\* the python process closes: a non-zero exit code, unparsable output and
\* result.success false all throw; otherwise result.analysis
PythonResolve(r) ==
  /\ sub[r] = "python"
  /\ \/ \E v \in AnalysisTexts : res' = [res EXCEPT ![r] = Ok(v)]
     \/ res' = [res EXCEPT ![r] = Fail(PlainErr("Python vision model failed"))]
  /\ sub' = [sub EXCEPT ![r] = "ready"]
  /\ cnt' = [cnt EXCEPT ![r].up = @ + 1]
  /\ UNCHANGED <<envVars, files, chatVars, storeVars, budget, nreq, pc, ep, inp,
                 loc, rt, sent, hl, fx>>

\* the setTimeout(..., 100) of the cleanup fires: fsPromises.unlink
TimerFire(r) ==
  /\ sub[r] = "timer"
  /\ sub' = [sub EXCEPT ![r] = "unlink"]
  /\ UNCHANGED <<envVars, files, chatVars, storeVars, budget, nreq, pc, ep, inp,
                 loc, res, rt, sent, cnt, hl, fx>>

\* cond ? await translateText(text, src, tgt) : text, and the resuming position
MaybeTranslate(r, cond, text, src, tgt, nextPc) ==
  /\ sub' = [sub EXCEPT ![r] = IF cond THEN translateTextSub(text, src, tgt) ELSE "ready"]
  /\ res' = [res EXCEPT ![r] = IF cond THEN translateTextRes(text, src, tgt) ELSE Ok(text)]
  /\ pc' = [pc EXCEPT ![r] = nextPc]

\* handleAnalyze up to processImage
OrganStart(r) ==
  /\ pc[r] = "start" /\ ep[r] = "organ"
  /\ IF ~HasFile(r)
       THEN /\ Respond(r, Failure(400, "No image uploaded"))
            /\ pc' = [pc EXCEPT ![r] = "done"]
            /\ sub' = sub
     ELSE IF ~apiKey
       THEN /\ Respond(r, Failure(500, "OpenAI API key not configured"))
            /\ pc' = [pc EXCEPT ![r] = "done"]
            /\ sub' = sub
     ELSE /\ sub' = [sub EXCEPT ![r] = "read"]
          /\ pc' = [pc EXCEPT ![r] = "og_image"]
          /\ sent' = sent
  /\ UNCHANGED <<envVars, files, chatVars, storeVars, budget, nreq, ep, inp, loc,
                 res, rt, cnt, hl, fx>>

\* the image is processed: the vision model process is spawned, or no client
OrganAfterImage(r) ==
  /\ pc[r] = "og_image" /\ sub[r] = "ready"
  /\ IF ~res[r].ok
       THEN CatchWithUnlink(r, res[r].err, "og_catch")
     ELSE IF ~genAI
       THEN CatchWithUnlink(r, PlainErr("No AI API key configured"), "og_catch")
     ELSE /\ sub' = [sub EXCEPT ![r] = "python"]
          /\ res' = [res EXCEPT ![r] = NoRes]
          /\ pc' = [pc EXCEPT ![r] = "og_python"]
          /\ loc' = loc
  /\ UNCHANGED <<envVars, files, chatVars, storeVars, budget, nreq, ep, inp, rt,
                 sent, cnt, hl, fx>>

\* the analysis arrived: diagnosis, recommendations, translation of the analysis
OrganAfterPython(r) ==
  /\ pc[r] = "og_python" /\ sub[r] = "ready"
  /\ IF ~res[r].ok
       THEN CatchWithUnlink(r, res[r].err, "og_catch")
       ELSE LET analysis == res[r].val
                detectedLang == detectLanguage(analysis)
            IN /\ loc' = [loc EXCEPT ![r].text = analysis, ![r].detected = detectedLang,
                                     ![r].diag = Diag, ![r].recs = Recs]
               /\ MaybeTranslate(r, inp[r].outLang # detectedLang, analysis,
                                 detectedLang, inp[r].outLang, "og_analysis")
  /\ UNCHANGED <<envVars, files, chatVars, storeVars, budget, nreq, ep, inp, rt,
                 sent, cnt, hl, fx>>

\* translatedAnalysis is known: translation of the diagnosis
OrganAfterAnalysis(r) ==
  /\ pc[r] = "og_analysis" /\ sub[r] = "ready"
  /\ loc' = [loc EXCEPT ![r].final = res[r].val]
  /\ MaybeTranslate(r, inp[r].outLang # "en", loc[r].diag, "en", inp[r].outLang,
                    "og_diagnosis")
  /\ UNCHANGED <<envVars, files, chatVars, storeVars, budget, nreq, ep, inp, rt,
                 sent, cnt, hl, fx>>

\* translatedDiagnosis is known: Promise.all over the recommendations
OrganAfterDiagnosis(r) ==
  /\ pc[r] = "og_diagnosis" /\ sub[r] = "ready"
  /\ loc' = [loc EXCEPT ![r].diag = res[r].val]
  /\ MaybeTranslate(r, inp[r].outLang # "en", loc[r].recs, "en", inp[r].outLang,
                    "og_recs")
  /\ UNCHANGED <<envVars, files, chatVars, storeVars, budget, nreq, ep, inp, rt,
                 sent, cnt, hl, fx>>

\* the recommendations are translated: the speech call on diagnosis and analysis
OrganAfterRecs(r) ==
  /\ pc[r] = "og_recs" /\ sub[r] = "ready"
  /\ loc' = [loc EXCEPT ![r].recs = res[r].val]
  /\ LET text == loc[r].diag \o <<"sp">> \o loc[r].final
     IN /\ sub' = [sub EXCEPT ![r] = textToSpeechSub(text)]
        /\ res' = [res EXCEPT ![r] = textToSpeechRes(text)]
  /\ pc' = [pc EXCEPT ![r] = "og_tts"]
  /\ UNCHANGED <<envVars, files, chatVars, storeVars, budget, nreq, ep, inp, rt,
                 sent, cnt, hl, fx>>

\* the speech call settled: res.json first, then the cleanup timer is set
OrganAfterTts(r) ==
  /\ pc[r] = "og_tts" /\ sub[r] = "ready"
  /\ loc' = [loc EXCEPT ![r].audio = IF res[r].ok THEN "mp3" ELSE "null"]
  /\ fx' = [fx EXCEPT ![r].ttsFail = ~res[r].ok]
  /\ Respond(r, Success(loc[r].final, loc[r].diag, loc'[r].audio))
  /\ sub' = [sub EXCEPT ![r] = "timer"]
  /\ res' = [res EXCEPT ![r] = NoRes]
  /\ pc' = [pc EXCEPT ![r] = "og_cleanup"]
  /\ UNCHANGED <<envVars, files, chatVars, storeVars, budget, nreq, ep, inp, rt,
                 cnt, hl>>

\* a variant of OrganCleanup whose unlink failure is not caught in the timer
\* callback and is answered like a failure of the handler
OrganCleanupUncaught(r) ==
  /\ pc[r] = "og_cleanup" /\ sub[r] = "ready"
  /\ pc' = [pc EXCEPT ![r] = "done"]
  /\ sub' = [sub EXCEPT ![r] = "none"]
  /\ res' = [res EXCEPT ![r] = NoRes]
  /\ IF res[r].ok THEN sent' = sent ELSE Respond(r, Failure(500, "Failed to analyze image"))
  /\ UNCHANGED <<envVars, files, chatVars, storeVars, budget, nreq, ep, inp, loc,
                 rt, cnt, hl, fx>>

\* the unlink of the cleanup settled; a failure is logged
OrganCleanup(r) ==
  /\ pc[r] = "og_cleanup" /\ sub[r] = "ready"
  /\ pc' = [pc EXCEPT ![r] = "done"]
  /\ sub' = [sub EXCEPT ![r] = "none"]
  /\ res' = [res EXCEPT ![r] = NoRes]
  /\ UNCHANGED <<envVars, files, chatVars, storeVars, budget, nreq, ep, inp, loc,
                 rt, sent, cnt, hl, fx>>

OrganCatch(r) ==
  /\ pc[r] = "og_catch" /\ sub[r] = "ready"
  /\ Respond(r, RateLimitAware(loc[r].err, "Failed to analyze image"))
  /\ pc' = [pc EXCEPT ![r] = "done"]
  /\ sub' = [sub EXCEPT ![r] = "none"]
  /\ res' = [res EXCEPT ![r] = NoRes]
  /\ UNCHANGED <<envVars, files, chatVars, storeVars, budget, nreq, ep, inp, loc,
                 rt, cnt, hl, fx>>

OrganStep(r) ==
  \/ OrganStart(r) \/ OrganAfterImage(r) \/ OrganAfterPython(r) \/ OrganAfterAnalysis(r)
  \/ OrganAfterDiagnosis(r) \/ OrganAfterRecs(r) \/ OrganAfterTts(r) \/ OrganCleanup(r)
  \/ OrganCatch(r)

(***************************************************************************)
(* routes/translation.js                                                   *)
(***************************************************************************)
\* handleTranslate, and router.post('/translate-and-speak'), up to translateText
TranslateStart(r) ==
  /\ pc[r] = "start" /\ ep[r] \in {"translate", "translateSpeak"}
  /\ IF IsBlank(inp[r].text)
       THEN /\ Respond(r, Failure(400, "Text is required"))
            /\ pc' = [pc EXCEPT ![r] = "done"]
            /\ UNCHANGED <<sub, res, loc>>
     ELSE IF inp[r].outLang = ""
       THEN /\ Respond(r, Failure(400, "Target language is required"))
            /\ pc' = [pc EXCEPT ![r] = "done"]
            /\ UNCHANGED <<sub, res, loc>>
     ELSE LET sourceLang == IF inp[r].srcLang # "" THEN inp[r].srcLang
                            ELSE detectLanguage(inp[r].text)
          IN /\ loc' = [loc EXCEPT ![r].text = inp[r].text, ![r].detected = sourceLang]
             /\ sub' = [sub EXCEPT ![r] =
                          translateTextSub(inp[r].text, sourceLang, inp[r].outLang)]
             /\ res' = [res EXCEPT ![r] =
                          translateTextRes(inp[r].text, sourceLang, inp[r].outLang)]
             /\ pc' = [pc EXCEPT ![r] = "tl_translated"]
             /\ sent' = sent
  /\ UNCHANGED <<envVars, files, chatVars, storeVars, budget, nreq, ep, inp, rt,
                 cnt, hl, fx>>

\* translateText returned: res.json of handleTranslate, or the speech call
TranslateAfterTranslate(r) ==
  /\ pc[r] = "tl_translated" /\ sub[r] = "ready"
  /\ loc' = [loc EXCEPT ![r].final = res[r].val]
  /\ IF ep[r] = "translate"
       THEN /\ Respond(r, Success(loc[r].text, res[r].val, "null"))
            /\ pc' = [pc EXCEPT ![r] = "done"]
            /\ sub' = [sub EXCEPT ![r] = "none"]
            /\ res' = [res EXCEPT ![r] = NoRes]
       ELSE /\ sub' = [sub EXCEPT ![r] = textToSpeechSub(res[r].val)]
            /\ res' = [res EXCEPT ![r] = textToSpeechRes(res[r].val)]
            /\ pc' = [pc EXCEPT ![r] = "tl_tts"]
            /\ sent' = sent
  /\ UNCHANGED <<envVars, files, chatVars, storeVars, budget, nreq, ep, inp, rt,
                 cnt, hl, fx>>

\* translate-and-speak: the speech call settled (a rejection is caught)
TranslateSpeakAfterTts(r) ==
  /\ pc[r] = "tl_tts" /\ sub[r] = "ready"
  /\ loc' = [loc EXCEPT ![r].audio = IF res[r].ok THEN "mp3" ELSE "null"]
  /\ fx' = [fx EXCEPT ![r].ttsFail = ~res[r].ok]
  /\ Respond(r, Success(loc[r].text, loc[r].final, loc'[r].audio))
  /\ pc' = [pc EXCEPT ![r] = "done"]
  /\ sub' = [sub EXCEPT ![r] = "none"]
  /\ res' = [res EXCEPT ![r] = NoRes]
  /\ UNCHANGED <<envVars, files, chatVars, storeVars, budget, nreq, ep, inp, rt,
                 cnt, hl>>

\* router.post('/text-to-speech') up to textToSpeechBase64
TextToSpeechStart(r) ==
  /\ pc[r] = "start" /\ ep[r] = "tts"
  /\ IF IsBlank(inp[r].text)
       THEN /\ Respond(r, Failure(400, "Text is required"))
            /\ pc' = [pc EXCEPT ![r] = "done"]
            /\ UNCHANGED <<sub, res>>
       ELSE /\ sub' = [sub EXCEPT ![r] = textToSpeechSub(inp[r].text)]
            /\ res' = [res EXCEPT ![r] = textToSpeechRes(inp[r].text)]
            /\ pc' = [pc EXCEPT ![r] = "tt_tts"]
            /\ sent' = sent
  /\ UNCHANGED <<envVars, files, chatVars, storeVars, budget, nreq, ep, inp, loc,
                 rt, cnt, hl, fx>>

\* the speech call settled: res.json, or the catch block when it rejected
TextToSpeechAfterTts(r) ==
  /\ pc[r] = "tt_tts" /\ sub[r] = "ready"
  /\ IF res[r].ok
       THEN /\ Respond(r, Success(inp[r].text, <<>>, "mp3"))
            /\ loc' = [loc EXCEPT ![r].audio = "mp3"]
       ELSE /\ Respond(r, Failure(500, "Failed to generate speech"))
            /\ loc' = [loc EXCEPT ![r].err = res[r].err]
  /\ pc' = [pc EXCEPT ![r] = "done"]
  /\ sub' = [sub EXCEPT ![r] = "none"]
  /\ res' = [res EXCEPT ![r] = NoRes]
  /\ UNCHANGED <<envVars, files, chatVars, storeVars, budget, nreq, ep, inp, rt,
                 cnt, hl, fx>>

TranslationStep(r) ==
  \/ TranslateStart(r) \/ TranslateAfterTranslate(r) \/ TranslateSpeakAfterTts(r)
  \/ TextToSpeechStart(r) \/ TextToSpeechAfterTts(r)

(***************************************************************************)
(* The document routes of routes/translation.js and the CSV routes of      *)
(* routes/clinicalChat.js: upload, analyze and query have the same shape   *)
(* in both routers; a document is read and then parsed, a CSV only parsed. *)
(***************************************************************************)
IsDoc(e) == e \in {"docUpload", "docQuery", "docAnalyze"}
IsUpload(e) == e \in {"docUpload", "csvUpload"}
IsAnalyze(e) == e \in {"docAnalyze", "csvAnalyze"}
IsQuery(e) == e \in {"docQuery", "csvQuery"}

\* the answer of the outer catch blocks
storeFailure(e) ==
  CASE e = "docUpload" -> Failure(500, "Failed to process document")
    [] e = "csvUpload" -> Failure(500, "Failed to process CSV")
    [] e = "docAnalyze" -> Failure(500, "Failed to analyze document")
    [] e = "csvAnalyze" -> Failure(500, "Failed to analyze CSV")
    [] e = "docQuery" -> Failure(500, "Failed to process question")
    [] e = "csvQuery" -> Failure(500, "Failed to process query")

\* an error thrown in the try block of upload or analyze: the catch of upload
\* unlinks the file before it answers, the catch of analyze answers at once
StoreThrow(r, e) ==
  IF IsUpload(ep[r])
    THEN CatchWithUnlink(r, e, "st_catch") /\ sent' = sent
    ELSE /\ Respond(r, storeFailure(ep[r]))
         /\ loc' = [loc EXCEPT ![r].err = e]
         /\ pc' = [pc EXCEPT ![r] = "done"]
         /\ sub' = [sub EXCEPT ![r] = "none"]
         /\ res' = [res EXCEPT ![r] = NoRes]

\* router.post('/upload') and router.post('/analyze') up to the first await
StoreStart(r) ==
  /\ pc[r] = "start" /\ (IsUpload(ep[r]) \/ IsAnalyze(ep[r]))
  /\ IF ~HasFile(r)
       THEN /\ Respond(r, Failure(400, "No file uploaded"))
            /\ pc' = [pc EXCEPT ![r] = "done"]
            /\ sub' = sub
       ELSE /\ sub' = [sub EXCEPT ![r] = IF IsDoc(ep[r]) THEN "read" ELSE "parse"]
            /\ pc' = [pc EXCEPT ![r] = IF IsDoc(ep[r]) THEN "st_read" ELSE "st_parse"]
            /\ sent' = sent
  /\ UNCHANGED <<envVars, files, chatVars, storeVars, budget, nreq, ep, inp, loc,
                 res, rt, cnt, hl, fx>>

\* fs.readFile settled: extractPdfText
StoreAfterRead(r) ==
  /\ pc[r] = "st_read" /\ sub[r] = "ready"
  /\ IF ~res[r].ok
       THEN StoreThrow(r, res[r].err)
       ELSE /\ sub' = [sub EXCEPT ![r] = "parse"]
            /\ res' = [res EXCEPT ![r] = NoRes]
            /\ pc' = [pc EXCEPT ![r] = "st_parse"]
            /\ UNCHANGED <<loc, sent>>
  /\ UNCHANGED <<envVars, files, chatVars, storeVars, budget, nreq, ep, inp, rt,
                 cnt, hl, fx>>

\* the parse settled: the empty check, the store entry, the unlink of the upload
StoreAfterParse(r) ==
  /\ pc[r] = "st_parse" /\ sub[r] = "ready"
  /\ IF ~res[r].ok
       THEN StoreThrow(r, res[r].err) /\ UNCHANGED storeVars
     ELSE IF IsBlank(res[r].val) /\ ep[r] # "csvAnalyze"
       THEN /\ Respond(r, Failure(400, IF IsDoc(ep[r])
                                         THEN "Could not extract text from PDF"
                                         ELSE "CSV file is empty"))
            /\ pc' = [pc EXCEPT ![r] = "done"]
            /\ sub' = [sub EXCEPT ![r] = "none"]
            /\ res' = [res EXCEPT ![r] = NoRes]
            /\ UNCHANGED <<loc, storeVars>>
     ELSE /\ docStore' = IF IsDoc(ep[r]) THEN docStore \cup {inp[r].n} ELSE docStore
          /\ csvStore' = IF IsDoc(ep[r]) THEN csvStore ELSE csvStore \cup {inp[r].n}
          /\ loc' = [loc EXCEPT ![r].text = res[r].val]
          /\ sub' = [sub EXCEPT ![r] = "unlink"]
          /\ res' = [res EXCEPT ![r] = NoRes]
          /\ pc' = [pc EXCEPT ![r] = "st_unlink"]
          /\ sent' = sent
  /\ UNCHANGED <<envVars, files, chatVars, budget, nreq, ep, inp, rt, cnt, hl, fx>>

\* the unlink settled: upload awaits it unguarded, analyze logs a failure
StoreAfterUnlink(r) ==
  /\ pc[r] = "st_unlink" /\ sub[r] = "ready"
  /\ IF res[r].ok \/ IsAnalyze(ep[r])
       THEN /\ Respond(r, Success(loc[r].text, <<>>, "null"))
            /\ pc' = [pc EXCEPT ![r] = "done"]
            /\ sub' = [sub EXCEPT ![r] = "none"]
            /\ res' = [res EXCEPT ![r] = NoRes]
            /\ loc' = loc
       ELSE CatchWithUnlink(r, res[r].err, "st_catch") /\ sent' = sent
  /\ UNCHANGED <<envVars, files, chatVars, storeVars, budget, nreq, ep, inp, rt,
                 cnt, hl, fx>>

\* the catch block of upload and the inner catch of query, after their unlink
StoreCatch(r) ==
  /\ pc[r] = "st_catch" /\ sub[r] = "ready"
  /\ Respond(r, storeFailure(ep[r]))
  /\ pc' = [pc EXCEPT ![r] = "done"]
  /\ sub' = [sub EXCEPT ![r] = "none"]
  /\ res' = [res EXCEPT ![r] = NoRes]
  /\ UNCHANGED <<envVars, files, chatVars, storeVars, budget, nreq, ep, inp, loc,
                 rt, cnt, hl, fx>>

\* query, once the data is at hand: the credential check and the completion call
QueryAsk(r) ==
  IF ~apiKey
    THEN /\ Respond(r, Failure(500, "OpenAI API key not configured"))
         /\ pc' = [pc EXCEPT ![r] = "done"]
         /\ sub' = [sub EXCEPT ![r] = "none"]
    ELSE /\ sub' = [sub EXCEPT ![r] = "up"]
         /\ pc' = [pc EXCEPT ![r] = "q_up"]
         /\ sent' = sent

\* router.post('/query') up to the first await
QueryStart(r) ==
  /\ pc[r] = "start" /\ IsQuery(ep[r])
  /\ LET stored == IF IsDoc(ep[r]) THEN docStore ELSE csvStore IN
     IF inp[r].text = Empty
       THEN /\ Respond(r, Failure(400, "Question is required"))
            /\ pc' = [pc EXCEPT ![r] = "done"]
            /\ sub' = sub
     ELSE IF HasFile(r)
       THEN /\ sub' = [sub EXCEPT ![r] = IF IsDoc(ep[r]) THEN "read" ELSE "parse"]
            /\ pc' = [pc EXCEPT ![r] = IF IsDoc(ep[r]) THEN "q_read" ELSE "q_parse"]
            /\ sent' = sent
     ELSE IF inp[r].fileId = 0
       THEN /\ Respond(r, Failure(400, "Either file or fileId is required"))
            /\ pc' = [pc EXCEPT ![r] = "done"]
            /\ sub' = sub
     ELSE IF inp[r].fileId \notin stored
       THEN /\ Respond(r, Failure(404, "not found"))
            /\ pc' = [pc EXCEPT ![r] = "done"]
            /\ sub' = sub
     ELSE QueryAsk(r)
  /\ UNCHANGED <<envVars, files, chatVars, storeVars, budget, nreq, ep, inp, loc,
                 res, rt, cnt, hl, fx>>

\* fs.readFile settled inside the inner try: extractPdfText
QueryAfterRead(r) ==
  /\ pc[r] = "q_read" /\ sub[r] = "ready"
  /\ IF ~res[r].ok
       THEN CatchWithUnlink(r, res[r].err, "st_catch")
       ELSE /\ sub' = [sub EXCEPT ![r] = "parse"]
            /\ res' = [res EXCEPT ![r] = NoRes]
            /\ pc' = [pc EXCEPT ![r] = "q_parse"]
            /\ loc' = loc
  /\ UNCHANGED <<envVars, files, chatVars, storeVars, budget, nreq, ep, inp, rt,
                 sent, cnt, hl, fx>>

\* the parse settled inside the inner try: the unlink of the upload
QueryAfterParse(r) ==
  /\ pc[r] = "q_parse" /\ sub[r] = "ready"
  /\ IF ~res[r].ok
       THEN CatchWithUnlink(r, res[r].err, "st_catch")
       ELSE /\ sub' = [sub EXCEPT ![r] = "unlink"]
            /\ res' = [res EXCEPT ![r] = NoRes]
            /\ pc' = [pc EXCEPT ![r] = "q_unlink"]
            /\ loc' = loc
  /\ UNCHANGED <<envVars, files, chatVars, storeVars, budget, nreq, ep, inp, rt,
                 sent, cnt, hl, fx>>

\* the unguarded unlink settled: on to the credential check, or the inner catch
QueryAfterUnlink(r) ==
  /\ pc[r] = "q_unlink" /\ sub[r] = "ready"
  /\ IF res[r].ok
       THEN QueryAsk(r) /\ UNCHANGED <<loc, res>>
       ELSE CatchWithUnlink(r, res[r].err, "st_catch") /\ sent' = sent
  /\ UNCHANGED <<envVars, files, chatVars, storeVars, budget, nreq, ep, inp, rt,
                 cnt, hl, fx>>

\* the completion call settled: the catch block, or translation and speech
QueryAfterUpstream(r) ==
  /\ pc[r] = "q_up" /\ sub[r] = "ready"
  /\ IF ~res[r].ok
       THEN /\ Respond(r, storeFailure(ep[r]))
            /\ loc' = [loc EXCEPT ![r].err = res[r].err]
            /\ pc' = [pc EXCEPT ![r] = "done"]
            /\ sub' = [sub EXCEPT ![r] = "none"]
            /\ res' = [res EXCEPT ![r] = NoRes]
     ELSE LET answer == Trim(res[r].val)
              detectedLang == detectLanguage(answer)
              out == inp[r].outLang
          IN /\ sent' = sent
             /\ IF out # detectedLang
                  THEN /\ loc' = [loc EXCEPT ![r].text = answer,
                                             ![r].detected = detectedLang]
                       /\ sub' = [sub EXCEPT ![r] = translateTextSub(answer, detectedLang, out)]
                       /\ res' = [res EXCEPT ![r] = translateTextRes(answer, detectedLang, out)]
                       /\ pc' = [pc EXCEPT ![r] = "q_tr"]
                  ELSE /\ loc' = [loc EXCEPT ![r].text = answer,
                                             ![r].detected = detectedLang,
                                             ![r].final = answer]
                       /\ sub' = [sub EXCEPT ![r] = textToSpeechSub(answer)]
                       /\ res' = [res EXCEPT ![r] = textToSpeechRes(answer)]
                       /\ pc' = [pc EXCEPT ![r] = "q_tts"]
  /\ UNCHANGED <<envVars, files, chatVars, storeVars, budget, nreq, ep, inp, rt,
                 cnt, hl, fx>>

QueryAfterTranslate(r) ==
  /\ pc[r] = "q_tr" /\ sub[r] = "ready"
  /\ loc' = [loc EXCEPT ![r].final = res[r].val]
  /\ sub' = [sub EXCEPT ![r] = textToSpeechSub(res[r].val)]
  /\ res' = [res EXCEPT ![r] = textToSpeechRes(res[r].val)]
  /\ pc' = [pc EXCEPT ![r] = "q_tts"]
  /\ UNCHANGED <<envVars, files, chatVars, storeVars, budget, nreq, ep, inp, rt,
                 sent, cnt, hl, fx>>

QueryAfterTts(r) ==
  /\ pc[r] = "q_tts" /\ sub[r] = "ready"
  /\ loc' = [loc EXCEPT ![r].audio = IF res[r].ok THEN "mp3" ELSE "null"]
  /\ fx' = [fx EXCEPT ![r].ttsFail = ~res[r].ok]
  /\ Respond(r, Success(loc[r].final, <<>>, loc'[r].audio))
  /\ pc' = [pc EXCEPT ![r] = "done"]
  /\ sub' = [sub EXCEPT ![r] = "none"]
  /\ res' = [res EXCEPT ![r] = NoRes]
  /\ UNCHANGED <<envVars, files, chatVars, storeVars, budget, nreq, ep, inp, rt,
                 cnt, hl>>

StoreStep(r) ==
  \/ StoreStart(r) \/ StoreAfterRead(r) \/ StoreAfterParse(r) \/ StoreAfterUnlink(r)
  \/ StoreCatch(r)
  \/ QueryStart(r) \/ QueryAfterRead(r) \/ QueryAfterParse(r) \/ QueryAfterUnlink(r)
  \/ QueryAfterUpstream(r) \/ QueryAfterTranslate(r) \/ QueryAfterTts(r)

(***************************************************************************)
(* Harness for retryWithBackoff(fn, maxRetries, baseDelay) taken alone     *)
(***************************************************************************)
InitRetry ==
  /\ InitStores
  /\ apiKey = TRUE
  /\ genAI = FALSE
  /\ masterKey = FALSE
  /\ budget = 0
  /\ pc = [r \in Req |-> IF r = 1 THEN "retry" ELSE "idle"]
  /\ ep = [r \in Req |-> IF r = 1 THEN "retry" ELSE "none"]
  /\ inp = [r \in Req |-> NoInp]
  /\ loc = [r \in Req |-> NoLoc]
  /\ sub = [r \in Req |-> IF r = 1 THEN "retry_call" ELSE "none"]
  /\ res = [r \in Req |-> NoRes]
  /\ \E m \in 0..MaxRetriesBound : \E b \in {1000, 2000} :
       rt = [r \in Req |-> IF r = 1 THEN [RtNew(m, b) EXCEPT !.keep = TRUE] ELSE RtIdle]
  /\ sent = [r \in Req |-> <<>>]
  /\ cnt = [r \in Req |-> NoCnt]
  /\ hl = [r \in Req |-> 0]
  /\ fx = [r \in Req |-> NoFx]

NextRetry == RetryInvoke(1, UpstreamErrors) \/ RetrySleep(1)

SpecRetry == InitRetry /\ [][NextRetry]_vars

(***************************************************************************)
(* Harness for translateText(text, sourceLang, targetLang) taken alone     *)
(***************************************************************************)
FnTexts == {Empty, Sp, <<"sp", "sp">>, Hello, PadHello, Gato, Hola}
FnLanguages == {"en", "es", "vi"}

\* the caller awaits translateText(text, sourceLang, targetLang)
TranslateTextCall(r) ==
  /\ pc[r] = "fn" /\ ep[r] = "translateText"
  /\ sub' = [sub EXCEPT ![r] = translateTextSub(inp[r].text, inp[r].srcLang, inp[r].outLang)]
  /\ res' = [res EXCEPT ![r] = translateTextRes(inp[r].text, inp[r].srcLang, inp[r].outLang)]
  /\ pc' = [pc EXCEPT ![r] = "fn_await"]
  /\ UNCHANGED <<envVars, files, chatVars, storeVars, budget, nreq, ep, inp, loc,
                 rt, sent, cnt, hl, fx>>

\* translateText has returned to its caller
TranslateTextReturn(r) ==
  /\ pc[r] = "fn_await" /\ sub[r] = "ready"
  /\ loc' = [loc EXCEPT ![r].final = res[r].val]
  /\ pc' = [pc EXCEPT ![r] = "done"]
  /\ sub' = [sub EXCEPT ![r] = "none"]
  /\ res' = [res EXCEPT ![r] = NoRes]
  /\ UNCHANGED <<envVars, files, chatVars, storeVars, budget, nreq, ep, inp, rt,
                 sent, cnt, hl, fx>>

InitTranslate ==
  /\ InitStores
  /\ apiKey = TRUE
  /\ genAI = FALSE
  /\ masterKey = FALSE
  /\ budget = 0
  /\ pc = [r \in Req |-> IF r = 1 THEN "fn" ELSE "idle"]
  /\ ep = [r \in Req |-> IF r = 1 THEN "translateText" ELSE "none"]
  /\ \E t \in FnTexts : \E a \in FnLanguages : \E b \in FnLanguages :
       inp = [r \in Req |-> IF r = 1
                              THEN [NoInp EXCEPT !.text = t, !.srcLang = a, !.outLang = b]
                              ELSE NoInp]
  /\ loc = [r \in Req |-> NoLoc]
  /\ sub = [r \in Req |-> "none"]
  /\ res = [r \in Req |-> NoRes]
  /\ rt = [r \in Req |-> RtIdle]
  /\ sent = [r \in Req |-> <<>>]
  /\ cnt = [r \in Req |-> NoCnt]
  /\ hl = [r \in Req |-> 0]
  /\ fx = [r \in Req |-> NoFx]

NextTranslate == TranslateTextCall(1) \/ TranslateResolve(1) \/ TranslateTextReturn(1)

SpecTranslate == InitTranslate /\ [][NextTranslate]_vars

(***************************************************************************)
(* Chat requests one at a time, from an empty history store                *)
(***************************************************************************)
InitSeq ==
  /\ InitStores /\ InitSlots
  /\ apiKey \in BOOLEAN
  /\ genAI = FALSE
  /\ masterKey = FALSE
  /\ budget = MaxSeqSends

NextSeq == (\E e \in ChatEndpoints : Receive(1, e)) \/ ChatStep(1)

SpecSeq == InitSeq /\ [][NextSeq]_vars

(***************************************************************************)
(* Overlapping chat requests.  The default session starts empty, or with a *)
(* history that earlier exchanges have filled up to or past the cap.       *)
(***************************************************************************)
\* the history array after p entries were pushed to it one exchange at a time
HistoryAfter(p) ==
  LET n == IF p > HistoryCap THEN HistoryCap ELSE p
  IN [i \in 1..n |-> [role |-> IF (p - n + i) % 2 = 1 THEN "user" ELSE "assistant",
                      k |-> p - n + i]]

InitChat ==
  /\ InitSlots
  /\ files = {} /\ docStore = {} /\ csvStore = {} /\ nreq = 0
  /\ apiKey \in BOOLEAN
  /\ genAI = FALSE
  /\ masterKey = FALSE
  /\ budget = MaxChatSends
  /\ \E p \in {0, 18} :
       /\ store = [s \in Sessions |-> IF s = "default" /\ p > 0 THEN 1 ELSE 0]
       /\ lists = [i \in ListIds |-> IF i = 1 THEN HistoryAfter(p) ELSE <<>>]
       /\ pushed = [i \in ListIds |-> IF i = 1 THEN p ELSE 0]

NextChat == \E r \in Req : (\E e \in ChatEndpoints : Receive(r, e)) \/ ChatStep(r)

SpecChat == InitChat /\ [][NextChat]_vars

(***************************************************************************)
(* The server handling requests of every endpoint, one at a time           *)
(***************************************************************************)
Init ==
  /\ InitStores /\ InitSlots
  /\ apiKey \in BOOLEAN
  /\ genAI \in BOOLEAN
  /\ masterKey = FALSE
  /\ budget = MaxRequests

Next ==
  \/ \E e \in Endpoints : Receive(1, e)
  \/ RateLimited(1) \/ NotFound(1)
  \/ Multer(1)
  \/ ChatStep(1) \/ TranscribeStep(1) \/ TranslateAudioStep(1) \/ OrganStep(1)
  \/ TranslationStep(1) \/ StoreStep(1)
  \/ RetryInvoke(1, ErrorClasses) \/ RetrySleep(1)
  \/ UnlinkResolve(1) \/ ReadResolve(1) \/ ParseResolve(1)
  \/ PythonResolve(1) \/ TimerFire(1)

Spec == Init /\ [][Next]_vars

(***************************************************************************)
(* The server with MASTER_API_KEY configured, on the routes that append to *)
(* the history, store uploads and call the upstream service                *)
(***************************************************************************)
MaxAuthRequests == 2   \* requests per run of the authentication specification

InitAuth ==
  /\ InitStores /\ InitSlots
  /\ apiKey = TRUE
  /\ genAI = FALSE
  /\ masterKey = TRUE
  /\ budget = MaxAuthRequests

NextAuth ==
  \/ \E e \in ChatEndpoints \cup {"docUpload", "docQuery", "docAnalyze",
                                   "csvUpload", "csvQuery", "csvAnalyze"} : Receive(1, e)
  \/ Multer(1) \/ ChatStep(1) \/ StoreStep(1)
  \/ UnlinkResolve(1) \/ ReadResolve(1) \/ ParseResolve(1)

SpecAuth == InitAuth /\ [][NextAuth]_vars

(***************************************************************************)
(* Properties                                                              *)
(***************************************************************************)
Done(r) == pc[r] = "done"
Last(r) == sent[r][Len(sent[r])]
AudioEndpoints ==
  {"chat", "docQuery", "csvQuery", "organ", "transcribe", "translateAudio", "translateSpeak"}

\* C1: once a file-bearing request has completed, whatever the exit path of its
\* handler, its uploaded temporary file is absent from storage.
C1Cleanup ==
  \A r \in Req : (Done(r) /\ ep[r] \in FileEndpoints) => inp[r].n \notin files

\* C2: when every invocation of fn fails with a status among 429, 500, 502, 503
\* and 504, retryWithBackoff with maxRetries = N never invokes fn more than N+1
\* times, and when it settles it has invoked fn exactly N+1 times and throws.
C2RetryBound ==
  LET t == rt[1]
      allRetryable == \A i \in 1..Len(t.log) : t.log[i].status \in retryableStatuses
  IN (ep[1] = "retry" /\ allRetryable) =>
       /\ t.calls <= t.max + 1
       /\ sub[1] = "ready" => (~res[1].ok /\ t.calls = t.max + 1 /\ res[1].err = t.lastError)

\* a run with maxRetries >= 2 that ended after failures of both kinds (429 and 5xx)
C2Witness ==
  LET t == rt[1] IN
    /\ ep[1] = "retry" /\ sub[1] = "ready" /\ ~res[1].ok
    /\ t.max >= 2 /\ t.calls = t.max + 1
    /\ \A i \in 1..Len(t.log) : t.log[i].status \in retryableStatuses
    /\ \E i \in 1..Len(t.log) : t.log[i].status = 429
    /\ \E i \in 1..Len(t.log) : t.log[i].status = 504

\* C3: on an endpoint that calls the upstream completion service, when every
\* upstream attempt failed with a 429 rate-limit error the final response has
\* HTTP status 429 and a populated retryAfter.
C3RateLimited ==
  \A r \in Req :
    (/\ Done(r) /\ cnt[r].up > 0
     /\ loc[r].err.status = 429
     /\ rt[r].calls > 0 => rt[r].all429)
    => (~Last(r).success /\ Last(r).status = 429 /\ Last(r).retryAfter > 0)

\* C4: whatever the interleaving of send, clear and history requests, no session
\* holds more than 20 entries while a handler is suspended or after it completed.
C4HistoryCap ==
  \A s \in Sessions : store[s] # 0 => Len(lists[store[s]]) <= HistoryCap

\* two overlapping sends have both pushed to the same session, past the cap
C4Witness ==
  /\ pc[1] \in {"chat_tr", "chat_tts"} /\ pc[2] \in {"chat_tr", "chat_tts"}
  /\ store["default"] # 0 /\ hl[1] = store["default"] /\ hl[2] = store["default"]
  /\ pushed[store["default"]] = 22
  /\ Len(lists[store["default"]]) = HistoryCap

C6AudioNonFatal ==
  \A r \in Req :
    (Done(r) /\ ep[r] \in AudioEndpoints /\ fx[r].ttsFail)
    => (Last(r).success /\ Last(r).audio = "null")

\* C7: when the translation service fails, translateText returns the original
\* text and the enclosing request still ends in a success response.
C7TranslateFallback ==
  \A r \in Req :
    (Done(r) /\ fx[r].trFail) => (Len(sent[r]) = 1 /\ Last(r).success)

\* C8 as stated: translateText(text, L, L) returns text itself for every text,
\* blank ones included, without a call to the translation service.
C8SameLanguageAnyText ==
  (ep[1] = "translateText" /\ Done(1) /\ inp[1].srcLang = inp[1].outLang)
  => (loc[1].final = inp[1].text /\ cnt[1].tr = 0)

\* C8 amended: translateText(text, L, L) makes no call to the translation service;
\* it returns text itself when text is not blank, and the empty string when text
\* is empty or whitespace-only.
C8SameLanguage ==
  (ep[1] = "translateText" /\ Done(1) /\ inp[1].srcLang = inp[1].outLang)
  => /\ cnt[1].tr = 0
     /\ loc[1].final = IF IsBlank(inp[1].text) THEN Empty ELSE inp[1].text

\* a padded text came back from a same-language call as it went in
C8Witness ==
  /\ ep[1] = "translateText" /\ Done(1) /\ inp[1].srcLang = inp[1].outLang
  /\ inp[1].text = PadHello /\ loc[1].final = PadHello /\ cnt[1].tr = 0

\* a request that passes the input validation of its endpoint
WellFormed(r) ==
  LET i == inp[r] IN
  CASE ep[r] \in {"chat", "tts"} -> ~IsBlank(i.text)
    [] ep[r] \in {"translate", "translateSpeak"} -> ~IsBlank(i.text) /\ i.outLang # ""
    [] ep[r] \in {"docQuery", "csvQuery"} -> i.file = "ok" /\ i.text # Empty
    [] ep[r] \in FileEndpoints \ {"docQuery", "csvQuery"} -> i.file = "ok" /\ i.ext
    [] OTHER -> FALSE

\* C9: without an upstream credential every feature endpoint answers HTTP 500
\* "... not configured" before any collaborator is invoked: no upstream call, no
\* translation or speech call, no file parsing.
C9NotConfigured ==
  \A r \in Req :
    (Done(r) /\ ~apiKey /\ WellFormed(r))
    => /\ Last(r).status = 500 /\ ~Last(r).success
       /\ Last(r).msg = "OpenAI API key not configured"
       /\ cnt[r].up = 0 /\ cnt[r].tr = 0 /\ cnt[r].tts = 0 /\ cnt[r].parse = 0

\* a request whose input is missing or malformed: blank text, no file, or a file
\* over the size limit
Malformed(r) ==
  LET i == inp[r] IN
  CASE ep[r] \in {"chat", "tts", "translate", "translateSpeak"} -> IsBlank(i.text)
    [] ep[r] \in {"docQuery", "csvQuery"} -> i.text = Empty \/ i.file = "toobig"
    [] ep[r] \in FileEndpoints \ {"docQuery", "csvQuery"} -> i.file \in {"none", "toobig"}
    [] OTHER -> FALSE

\* C10: a request with missing or malformed input is answered with HTTP 400 and a
\* failure envelope, and no upstream completion call is made for it.
C10Validation ==
  \A r \in Req :
    (Done(r) /\ Malformed(r))
    => (Last(r).status = 400 /\ ~Last(r).success /\ cnt[r].up = 0)

\* an error outside the retryable statuses
FatalStatus(status) == status # 200 /\ status \notin retryableStatuses

\* C11 as stated: in retryWithBackoff an error is retried if and only if its status
\* is 429, 500, 502, 503 or 504; after any other error there is no backoff sleep
\* and no further invocation.
C11RetryIffStatus ==
  LET t == rt[1] IN
  ep[1] = "retry" =>
    \A i \in 1..Len(t.log) :
      /\ FatalStatus(t.log[i].status) => (t.log[i].delay = 0 /\ i = Len(t.log))
      /\ (t.log[i].status \in retryableStatuses /\ i <= t.max) => t.log[i].delay > 0

\* C11 amended: while attempts remain, an error is retried if and only if its
\* status is 429, 500, 502, 503 or 504 or its code is 'rate_limit_exceeded'; any
\* other error ends the run at once, with no backoff sleep, and is thrown.
C11RetryIff ==
  LET t == rt[1] IN
  ep[1] = "retry" =>
    \A i \in 1..Len(t.log) :
      LET retried == t.log[i].status \in retryableStatuses
                       \/ t.log[i].code = "rate_limit_exceeded"
      IN /\ (t.log[i].status # 200 /\ ~retried) =>
              /\ t.log[i].delay = 0 /\ i = Len(t.log)
              /\ sub[1] = "ready" /\ ~res[1].ok /\ res[1].err.status = t.log[i].status
         /\ (retried /\ i <= t.max) => t.log[i].delay > 0
         /\ t.log[i].delay > 0 => (retried /\ i <= t.max)

\* a first invocation failed with status 400 and the run ended there, although
\* retries were left
C11Witness ==
  LET t == rt[1] IN
    /\ ep[1] = "retry" /\ t.max >= 1 /\ sub[1] = "ready" /\ ~res[1].ok
    /\ Len(t.log) = 1 /\ t.log[1].status = 400 /\ t.log[1].delay = 0

\* C12: the error retryWithBackoff throws is exactly the error of the last
\* invocation of fn, with its status, code and retry-after hint as fn raised them.
C12LastError ==
  LET t == rt[1] IN
  (ep[1] = "retry" /\ sub[1] = "ready" /\ ~res[1].ok) =>
    /\ t.thrown
    /\ res[1].err.n = t.calls
    /\ [res[1].err EXCEPT !.n = 0] \in UpstreamErrors
    /\ res[1].err.status = t.log[Len(t.log)].status
    /\ res[1].err.code = t.log[Len(t.log)].code

\* a run that first met a plain 500 and then exhausted its attempts on a 429 with
\* a retry-after hint throws that last error
C12Witness ==
  LET t == rt[1] IN
    /\ ep[1] = "retry" /\ sub[1] = "ready" /\ ~res[1].ok
    /\ t.calls >= 3 /\ t.calls = t.max + 1
    /\ t.log[1].status = 500
    /\ res[1].err.status = 429 /\ res[1].err.retryAfter = 30 /\ res[1].err.n = t.calls

\* C13: a failure to delete the uploaded file never turns a request into a
\* failure response: no request ends in a failure whose error is the deletion error.
C13UnlinkNonFatal ==
  \A r \in Req :
    (Done(r) /\ fx[r].unlinkFail /\ ~Last(r).success) => loc[r].err.msg # "unlink"

\* C14: every upstream call is made through the retry executor: no request ends
\* with the retryable error (429 or 5xx) of a first and only upstream attempt.
C14ThroughRetry ==
  \A r \in Req :
    (Done(r) /\ cnt[r].up > 0 /\ isRetryableError(loc[r].err)) => loc[r].err.n > 1

\* C15: a session key is present in the history store only if an append was made
\* for it since its last clear.
C15SessionPresence ==
  \A s \in Sessions : store[s] # 0 => pushed[store[s]] > 0

\* C20: within a chat request the history append comes after translation and
\* speech synthesis: entries are pushed only by the step that resumes from the
\* settled speech call and sends the response.
C20StageOrder ==
  [][(\E i \in ListIds : pushed'[i] > pushed[i])
       => (\E r \in Req : pc[r] = "chat_tts" /\ pc'[r] = "done")]_vars

\* C19 as stated: in the transcription response the translation field is null
\* whenever the detected language equals the requested output language, whatever
\* the translateToEnglish flag.
C19NullWhenSameAsOutput ==
  \A r \in Req :
    (Done(r) /\ ep[r] = "transcribe" /\ Last(r).success
       /\ loc[r].detected = inp[r].outLang)
    => Last(r).text2 = Null

\* C19 amended: the translation field is null whenever the detected language
\* equals the language the handler translates to: 'en' when translateToEnglish is
\* set, the requested output language otherwise.
C19NullWhenSameAsTarget ==
  \A r \in Req :
    (Done(r) /\ ep[r] = "transcribe" /\ Last(r).success
       /\ loc[r].detected = (IF inp[r].toEnglish THEN "en" ELSE inp[r].outLang))
    => Last(r).text2 = Null

\* an English transcription, translateToEnglish set and outputLanguage 'es'
C19Witness ==
  \E r \in Req :
    /\ Done(r) /\ ep[r] = "transcribe" /\ Last(r).success
    /\ inp[r].toEnglish /\ inp[r].outLang = "es" /\ loc[r].detected = "en"
    /\ ~inp[r].organCtx /\ Last(r).text = PadHello /\ Last(r).text2 = Null

\* the upstream service failed the request with an error that is not a rate
\* limit: the handler caught it, the retry run threw it, or a direct call was
\* rejected with it
UpstreamFailed(r) ==
  \/ fx[r].upCaught
  \/ rt[r].thrown /\ ~isRateLimit(rt[r].lastError)
  \/ rt[r].calls = 0 /\ loc[r].err.n > 0 /\ ~isRateLimit(loc[r].err)

\* C18: when the upstream completion service fails with a fatal error, or with a
\* transient error on its last attempt, and the failure is not a rate limit, the
\* endpoint answers HTTP 500 with a failure envelope, never success, never 429.
C18UpstreamFailure ==
  \A r \in Req :
    (Done(r) /\ cnt[r].up > 0 /\ UpstreamFailed(r))
    => (Last(r).status = 500 /\ ~Last(r).success)

\* C16: every response the server sends is a JSON envelope, with success false
\* exactly when the HTTP status is 4xx/5xx and a non-empty message on failures.
C16Envelope ==
  \A r \in Req : \A i \in 1..Len(sent[r]) :
    /\ sent[r][i].json
    /\ sent[r][i].success <=> sent[r][i].status < 400
    /\ ~sent[r][i].success => sent[r][i].msg # ""

\* C17: with MASTER_API_KEY configured, a request that does not present the key
\* never reaches its handler: it has no upstream call, no history array, no stored
\* upload or document, and it is not answered with success.
C17Authenticated ==
  \A r \in Req :
    (masterKey /\ pc[r] # "idle" /\ ~inp[r].authKey)
    => /\ cnt[r].up = 0 /\ cnt[r].parse = 0 /\ hl[r] = 0
       /\ inp[r].n \notin files \cup docStore \cup csvStore
       /\ Done(r) => ~Last(r).success

\* C23: an upstream call that fails by timing out (an error without a status code)
\* is retried by retryWithBackoff while attempts remain: a backoff sleep follows it.
C23TimeoutRetried ==
  LET t == rt[1] IN
  ep[1] = "retry" =>
    \A i \in 1..Len(t.log) :
      (t.log[i].status = 0 /\ t.log[i].code = "" /\ i <= t.max) => t.log[i].delay > 0

\* C25: in a run of retryWithBackoff whose failures all have a retryable status
\* (429 and 5xx mixed), each jitter-free delay is baseDelay * factor^attempt for the
\* attempt that just failed (factor 2 after a 429, 1.5 after a 5xx), and the delay
\* before retry k+1 is never smaller than the delay before retry k.
C25BackoffGrowth ==
  LET t == rt[1]
      failures == {i \in 1..Len(t.log) : t.log[i].status # 200}
      slept == {i \in 1..Len(t.log) : t.log[i].delay > 0}
  IN (ep[1] = "retry" /\ \A i \in failures : t.log[i].status \in retryableStatuses) =>
       /\ \A i \in slept :
            t.log[i].delay = IF t.log[i].status = 429
                               THEN rateLimitDelay(t.base, i - 1)
                               ELSE otherDelay(t.base, i - 1)
       /\ \A i \in slept : (i + 1) \in slept => t.log[i + 1].delay >= t.log[i].delay

\* C27: as soon as an invocation of fn succeeds, retryWithBackoff returns that
\* invocation's value, without sleeping and without invoking fn again: after j
\* failures that were each followed by a sleep, fn has been invoked j+1 times.
C27ReturnAtOnce ==
  LET t == rt[1] IN
  ep[1] = "retry" =>
    /\ \A i \in 1..Len(t.log) :
         t.log[i].status = 200 =>
           /\ i = Len(t.log) /\ t.calls = i /\ t.log[i].delay = 0
           /\ sub[1] = "ready" /\ res[1].ok /\ res[1].val = t.log[i].val
           /\ \A j \in 1..(i - 1) : t.log[j].status # 200 /\ t.log[j].delay > 0
    /\ (sub[1] = "ready" /\ res[1].ok) => t.log[Len(t.log)].status = 200

\* fn failed with a 429 and with a 503, then succeeded on its third invocation
C27Witness ==
  LET t == rt[1] IN
    /\ ep[1] = "retry" /\ sub[1] = "ready" /\ res[1].ok /\ t.max >= 3
    /\ t.calls = 3 /\ Len(t.log) = 3
    /\ t.log[1].status = 429 /\ t.log[2].status = 503 /\ t.log[3].status = 200
    /\ res[1].val = Gato

\* C21: for every file-bearing request the uploaded file is removed before the
\* response is sent: once a response has been written, the file is absent from
\* storage.
C21RemovedBeforeResponse ==
  \A r \in Req :
    (ep[r] \in FileEndpoints /\ sent[r] # <<>>) => inp[r].n \notin files

\* C24: every request of a feature endpoint sends exactly one response: never a
\* second one, also while cleanup continues after the response; a completed request
\* has sent one, and a request that has not completed can still take a step.
C24OneResponse ==
  \A r \in Req :
    /\ Len(sent[r]) <= 1
    /\ Done(r) => Len(sent[r]) = 1
    /\ (ep[r] \in Endpoints /\ ~Done(r)) => ENABLED <<Next>>_vars

\* an organ analysis answered with success, and the delayed cleanup then failed to
\* delete the upload
C24Witness ==
  /\ ep[1] = "organ" /\ Done(1) /\ Len(sent[1]) = 1 /\ Last(1).success
  /\ cnt[1].unlink = 1 /\ fx[1].unlinkFail /\ inp[1].n \in files

\* the entries a chat send appended are in the history array h
TurnIn(r, h) ==
  /\ \E i \in 1..Len(h) : h[i] = [role |-> "user", k |-> fx[r].turn]
  /\ \E i \in 1..Len(h) : h[i] = [role |-> "assistant", k |-> fx[r].turn + 1]

\* two chat sends of one session that were running at the same time and have both
\* appended, with no clear of the session since and the cap not exceeded
Overlapped(q, r) ==
  /\ q # r /\ ep[q] = "chat" /\ ep[r] = "chat" /\ inp[q].session = inp[r].session
  /\ fx[q].turn > 0 /\ fx[r].turn > 0
  /\ ~fx[q].cleared /\ ~fx[r].cleared
  /\ pushed[hl[q]] <= HistoryCap /\ pushed[hl[r]] <= HistoryCap

ClearStep(r, s) ==
  pc[r] = "start" /\ ep[r] = "clear" /\ inp[r].session = s /\ pc'[r] = "done"

\* C26: clear(sessionKey) removes exactly that session: afterwards the history read
\* for the key is empty and every other session is as before; clearing an unknown
\* key succeeds and changes nothing; only a clear removes a session from the store.
C26ClearExactly ==
  [][/\ \A r \in Req : \A s \in Sessions :
          ClearStep(r, s) =>
            /\ History(s)' = <<>> /\ store'[s] = 0
            /\ \A t \in Sessions \ {s} : store'[t] = store[t] /\ History(t)' = History(t)
            /\ store[s] = 0 => store' = store
            /\ Len(sent'[r]) = 1 /\ sent'[r][1].success /\ sent'[r][1].status = 200
     /\ \A s \in Sessions :
          (store[s] # 0 /\ store'[s] = 0) => \E r \in Req : ClearStep(r, s)]_vars

\* the default session was cleared while the other session holds an exchange
C26Witness ==
  /\ \E r \in Req : ep[r] = "clear" /\ Done(r) /\ inp[r].session = "default"
                    /\ Last(r).success
  /\ store["default"] = 0
  /\ store["s2"] # 0 /\ Len(History("s2")) = 2

\* C28: every stored session history has even length and alternates user,
\* assistant, user, assistant, ..., each user entry immediately followed by the
\* assistant entry pushed with it, under any interleaving of sends and clears.
C28Alternates ==
  \A s \in Sessions :
    LET h == History(s) IN
      /\ Len(h) % 2 = 0
      /\ \A i \in 1..Len(h) :
           /\ h[i].role = IF i % 2 = 1 THEN "user" ELSE "assistant"
           /\ i % 2 = 1 => h[i + 1].k = h[i].k + 1

\* two overlapping sends completed in the other order than they started, on a
\* history at the cap: the oldest exchange was evicted
C28Witness ==
  /\ Done(1) /\ Done(2) /\ ep[1] = "chat" /\ ep[2] = "chat"
  /\ inp[1].session = "default" /\ inp[2].session = "default"
  /\ inp[1].n < inp[2].n /\ fx[2].turn = 19 /\ fx[1].turn = 21
  /\ Len(History("default")) = HistoryCap /\ History("default")[1].k = 3

\* C29: a chat send that ends in a failure response has appended nothing, and its
\* failing step leaves the entries of every session history as they were; entries
\* are pushed only by the step in which a send records its turn.
C29FailedSendNoAppend ==
  [][/\ \A r \in Req :
          (ep[r] = "chat" /\ ~Done(r) /\ Done(r)' /\ ~Last(r)'.success) =>
            /\ fx'[r].turn = 0
            /\ \A s \in Sessions : History(s)' = History(s)
     /\ \A i \in ListIds :
          pushed'[i] > pushed[i] =>
            \E r \in Req : ep[r] = "chat" /\ hl[r] = i /\ fx[r].turn = 0
                           /\ fx'[r].turn = pushed[i] + 1]_vars

\* a send to a session holding 18 entries failed in the completion call
C29Witness ==
  \E r \in Req :
    /\ ep[r] = "chat" /\ Done(r) /\ ~Last(r).success /\ Last(r).status = 500
    /\ cnt[r].up > 0 /\ fx[r].turn = 0
    /\ hl[r] = store[inp[r].session] /\ Len(History(inp[r].session)) = 18

\* C30: when clear(s) ran while a send for s was awaiting the completion, the send
\* appends to the array it captured, which is no longer in the store: the history
\* read for s is unchanged by the append and never shows those entries; and the
\* number of entries visible for a session decreases only by a clear.
C30ClearedSendInvisible ==
  [][/\ \A r \in Req :
          (ep[r] = "chat" /\ fx[r].cleared /\ fx[r].turn = 0 /\ fx'[r].turn > 0) =>
            /\ History(inp[r].session)' = History(inp[r].session)
            /\ Len(lists'[hl[r]]) > 0 /\ lists'[hl[r]] # lists[hl[r]]
     /\ \A r \in Req :
          (ep'[r] = "chat" /\ fx'[r].cleared /\ fx'[r].turn > 0) =>
            hl'[r] # store'[inp'[r].session]
     /\ \A s \in Sessions :
          Len(History(s)') < Len(History(s)) => \E r \in Req : ClearStep(r, s)]_vars

\* a send captured a history of 18 entries, the session was cleared while it was
\* waiting, and it then completed with success: the history read is empty
C30Witness ==
  /\ ep[1] = "chat" /\ Done(1) /\ Last(1).success
  /\ fx[1].cleared /\ fx[1].turn = 19 /\ Len(lists[hl[1]]) = HistoryCap
  /\ ep[2] = "clear" /\ Done(2)
  /\ History(inp[1].session) = <<>>

====
